---- MODULE Spec2Model ----
(***************************************************************************)
(* GorAI_LLMClient: the conversation loop chatToNextLoop of the three      *)
(* orchestrator variants (model_base, deepseek_openai_model,               *)
(* minimax_anthropic_model), the tool-execution helpers, the argument      *)
(* parser, SimpleFunctionExecutor and the Anthropic message conversion.    *)
(*                                                                         *)
(* Texts are TLA+ strings; Python's None is the value None; a Python dict  *)
(* produced by json.loads is [t |-> "obj", m |-> <<[k, v], ...>>].         *)
(***************************************************************************)
EXTENDS Integers, Sequences, FiniteSets, TLC

\* ------------------------------------------------------------------ bounds
\* Model invocations (rounds) explored per run.
MaxRounds == 2
\* Think/Answer/ToolCall events the adapters deliver in one run, all rounds.
MaxItems == 2
\* Nesting depth at which the JSON decoder raises RecursionError (the
\* interpreter's recursion limit, scaled down).
RecursionLimit == 2

\* Provider chunks one stream handler run consumes.
MaxChunks == 4

\* Most tool descriptors in one model_tool_init call.
MaxTools == 2

\* Most content blocks (anthropic) or tool calls (openai) in one response.
MaxBlocks == 2

\* ------------------------------------------------------- texts and values
Ch(s, i) == SubSeq(s, i, i)

Last(s) == s[Len(s)]

None == [t |-> "none"]

JInt(n) == [t |-> "int", n |-> n]

JStr(s) == [t |-> "str", s |-> s]

JBool(b) == [t |-> "bool", b |-> b]

JArr(a) == [t |-> "arr", a |-> a]

JObj(m) == [t |-> "obj", m |-> m]

Digits == <<"0", "1", "2", "3", "4", "5", "6", "7", "8", "9">>

IsDigit(c) == \E d \in 1..10 : Digits[d] = c

DigitVal(c) == (CHOOSE d \in 1..10 : Digits[d] = c) - 1

IsWs(c) == c \in {" ", "\t", "\n", "\r"}

RECURSIVE SkipWs(_, _)
SkipWs(s, i) == IF i <= Len(s) /\ IsWs(Ch(s, i)) THEN SkipWs(s, i + 1) ELSE i

\* str.strip() leaves nothing: the text is empty or whitespace only.
StripIsEmpty(s) == SkipWs(s, 1) > Len(s)

\* str(int) for the small results the tools return.
RECURSIVE NatStr(_)
NatStr(n) == IF n < 10 THEN Digits[n + 1] ELSE NatStr(n \div 10) \o Digits[(n % 10) + 1]

IntStr(n) == IF n < 0 THEN "-" \o NatStr(-n) ELSE NatStr(n)

\* ------------------------------------------------------------ json.loads
\* A decoder result: st is "ok" (v the value, nx the next position),
\* "err" (json.JSONDecodeError) or "rec" (RecursionError).
JOk(v, nx) == [st |-> "ok", v |-> v, nx |-> nx]

JErr == [st |-> "err", v |-> None, nx |-> 0]

JRec == [st |-> "rec", v |-> None, nx |-> 0]

HasAt(s, i, lit) == i + Len(lit) - 1 <= Len(s) /\ SubSeq(s, i, i + Len(lit) - 1) = lit

\* Bind(e, Op) is Op(e) with e evaluated once.
Bind(e, Op(_)) == CHOOSE y \in {Op(v) : v \in {e}} : TRUE

RECURSIVE ScanDigits(_, _, _)
ScanDigits(s, i, acc) ==
    IF i <= Len(s) /\ IsDigit(Ch(s, i))
    THEN ScanDigits(s, i + 1, acc * 10 + DigitVal(Ch(s, i)))
    ELSE JOk(acc, i)

ScanNumber(s, i) ==
    LET neg == HasAt(s, i, "-")
        j == IF neg THEN i + 1 ELSE i
    IN IF j <= Len(s) /\ IsDigit(Ch(s, j))
       THEN Bind(ScanDigits(s, j, 0),
                 LAMBDA r : JOk(JInt(IF neg THEN 0 - r.v ELSE r.v), r.nx))
       ELSE JErr

RECURSIVE ScanStringEnd(_, _)
ScanStringEnd(s, i) ==
    IF i > Len(s) THEN 0
    ELSE IF Ch(s, i) = "\"" THEN i
    ELSE ScanStringEnd(s, i + 1)

\* s[i] is the opening double quote.
ScanString(s, i) ==
    Bind(ScanStringEnd(s, i + 1),
         LAMBDA e : IF e = 0 THEN JErr ELSE JOk(JStr(SubSeq(s, i + 1, e - 1)), e + 1))

RECURSIVE ScanValue(_, _, _), ScanMembers(_, _, _, _), ScanElements(_, _, _, _)
ScanValue(s, i, depth) ==
    IF i > Len(s) THEN JErr
    ELSE CASE Ch(s, i) = "\"" -> ScanString(s, i)
           [] Ch(s, i) = "{" ->
               IF depth >= RecursionLimit THEN JRec
               ELSE Bind(SkipWs(s, i + 1),
                         LAMBDA j : IF HasAt(s, j, "}") THEN JOk(JObj(<<>>), j + 1)
                                    ELSE ScanMembers(s, j, depth + 1, <<>>))
           [] Ch(s, i) = "[" ->
               IF depth >= RecursionLimit THEN JRec
               ELSE Bind(SkipWs(s, i + 1),
                         LAMBDA j : IF HasAt(s, j, "]") THEN JOk(JArr(<<>>), j + 1)
                                    ELSE ScanElements(s, j, depth + 1, <<>>))
           [] HasAt(s, i, "null") -> JOk(None, i + 4)
           [] HasAt(s, i, "true") -> JOk(JBool(TRUE), i + 4)
           [] HasAt(s, i, "false") -> JOk(JBool(FALSE), i + 5)
           [] OTHER -> ScanNumber(s, i)

\* After the member k : v of an object: "}" ends it, "," continues it.
AfterMember(s, depth, got, n) ==
    IF HasAt(s, n, "}") THEN JOk(JObj(got), n + 1)
    ELSE IF HasAt(s, n, ",")
    THEN Bind(SkipWs(s, n + 1), LAMBDA j : ScanMembers(s, j, depth, got))
    ELSE JErr

\* The value of the member with key k (a decoded string) starts after ":".
MemberValue(s, depth, acc, k) ==
    IF k.st # "ok" THEN k
    ELSE Bind(SkipWs(s, k.nx),
              LAMBDA c :
                IF ~HasAt(s, c, ":") THEN JErr
                ELSE Bind(ScanValue(s, SkipWs(s, c + 1), depth),
                          LAMBDA v :
                            IF v.st # "ok" THEN v
                            ELSE Bind(Append(acc, [k |-> k.v.s, v |-> v.v]),
                                      LAMBDA got :
                                        AfterMember(s, depth, got, SkipWs(s, v.nx)))))

\* s[i] starts a member "key" : value; acc holds the members read so far.
ScanMembers(s, i, depth, acc) ==
    IF ~HasAt(s, i, "\"") THEN JErr
    ELSE Bind(ScanString(s, i), LAMBDA k : MemberValue(s, depth, acc, k))

AfterElement(s, depth, got, n) ==
    IF HasAt(s, n, "]") THEN JOk(JArr(got), n + 1)
    ELSE IF HasAt(s, n, ",")
    THEN Bind(SkipWs(s, n + 1), LAMBDA j : ScanElements(s, j, depth, got))
    ELSE JErr

ScanElements(s, i, depth, acc) ==
    Bind(ScanValue(s, i, depth),
         LAMBDA v :
           IF v.st # "ok" THEN v
           ELSE Bind(Append(acc, v.v),
                     LAMBDA got : AfterElement(s, depth, got, SkipWs(s, v.nx))))

\* json.loads(s): one value, surrounded by whitespace only.
JsonLoads(s) ==
    Bind(ScanValue(s, SkipWs(s, 1), 0),
         LAMBDA r : IF r.st # "ok" THEN r
                    ELSE IF SkipWs(s, r.nx) > Len(s) THEN r ELSE JErr)

\* arguments_str.replace("'", '"')
RECURSIVE ReplaceQuotes(_)
ReplaceQuotes(s) ==
    IF Len(s) = 0 THEN ""
    ELSE (IF Ch(s, 1) = "'" THEN "\"" ELSE Ch(s, 1)) \o ReplaceQuotes(SubSeq(s, 2, Len(s)))

\* A parser outcome: [raised |-> FALSE, v |-> value or None], or
\* [raised |-> TRUE, v |-> None] when an exception leaves the parser.
Returned(v) == [raised |-> FALSE, v |-> v]

Raised == [raised |-> TRUE, v |-> None]

\* The second attempt of the parser, on the text with its quotes replaced.
ParseRepaired(arguments_str) ==
    Bind(JsonLoads(ReplaceQuotes(arguments_str)),
         LAMBDA fixed : IF fixed.st = "ok" THEN Returned(fixed.v)
                        ELSE IF fixed.st = "rec" THEN Raised
                        ELSE Returned(None))

_try_parse_tool_arguments(arguments_str) ==
    IF Len(arguments_str) = 0 \/ StripIsEmpty(arguments_str) THEN Returned(JObj(<<>>))
    ELSE Bind(JsonLoads(arguments_str),
              LAMBDA strict : IF strict.st = "ok" THEN Returned(strict.v)
                              ELSE IF strict.st = "rec" THEN Raised
                              ELSE ParseRepaired(arguments_str))

\* ------------------------------------------------- SimpleFunctionExecutor
\* str(e) of the exceptions the run can meet (Python's own wording differs).
JsonDecodeErrorText == "Expecting value"

RecursionErrorText == "maximum recursion depth exceeded"

UnboundLocalErrorText == "local variable 'tool_name' referenced before assignment"

TypeErrorText == "add() got unexpected arguments"

ToolNotFoundText(tool_name) == "Tool '" \o tool_name \o "' not found in executor"

\* The executor of the examples: SimpleFunctionExecutor({"add": add}).
tool_functions == {"add"}

\* dict lookup: the last member with the key wins.
Keys(obj) == {obj.m[i].k : i \in 1..Len(obj.m)}

Get(obj, key) == obj.m[CHOOSE i \in 1..Len(obj.m) :
                         obj.m[i].k = key /\ \A j \in (i + 1)..Len(obj.m) : obj.m[j].k # key].v

\* An executor outcome: the returned string, or the raised exception's text.
ExecReturned(s) == [raised |-> FALSE, text |-> s]

ExecRaised(s) == [raised |-> TRUE, text |-> s]

\* def add(a, b): return a + b, called as func(**arguments).
add(arguments) ==
    IF arguments.t # "obj" THEN ExecRaised(TypeErrorText)
    ELSE IF Keys(arguments) # {"a", "b"} THEN ExecRaised(TypeErrorText)
    ELSE LET a == Get(arguments, "a")
             b == Get(arguments, "b")
         IN IF a.t = "int" /\ b.t = "int" THEN ExecReturned(IntStr(a.n + b.n))
            ELSE IF a.t = "str" /\ b.t = "str" THEN ExecReturned(a.s \o b.s)
            ELSE ExecRaised(TypeErrorText)

execute_tool(tool_name, arguments) ==
    IF tool_name \notin tool_functions THEN ExecRaised(ToolNotFoundText(tool_name))
    ELSE add(arguments)

\* ------------------------------------------------------------- messages
UserMsg(c) == [role |-> "user", content |-> c]

\* Mutant of AssistantMsg: the answer message has the tool branch's shape.
AssistantMsgWithReasoning(c) == [role |-> "assistant", content |-> c, reasoning_content |-> ""]

AssistantMsg(c) == [role |-> "assistant", content |-> c]

\* Mutant of ToolMsg: the tool message loses the id of its call.
ToolMsgUnkeyed(id, c) == [role |-> "tool", tool_call_id |-> "", content |-> c]

ToolMsg(id, c) == [role |-> "tool", tool_call_id |-> id, content |-> c]

\* One entry of an assistant message's tool_calls.
ToolCallEntry(tool) ==
    [id |-> tool.id, function |-> [name |-> tool.name, arguments |-> tool.arguments],
     type |-> "function"]

\* One entry of the outward tool_calls event.
FrontendEntry(tool) ==
    [id |-> tool.id, function |-> [name |-> tool.name, arguments |-> tool.arguments]]

SeqMap(Op(_), s) == [i \in 1..Len(s) |-> Op(s[i])]

\* The literal texts of the loop (ASCII stand-ins for the Chinese literals).
InterruptedMessage == "conversation interrupted by user"

ParseErrorPrefix == "tool arguments are not valid JSON: "

ExecErrorPrefix == "tool execution error: "

ResponseErrorPrefix == "response error: "

AdapterErrorPrefix == "Error: "

\* ------------------------------------------------------- outward events
EvInterrupted == [type |-> "interrupted", message |-> InterruptedMessage]

EvError(msg) == [type |-> "error", message |-> msg]

EvThinking(c) == [type |-> "thinking", content |-> c]

EvAnswer(c) == [type |-> "answer", content |-> c]

EvToolCalls(tool_info) == [type |-> "tool_calls", tool_calls |-> SeqMap(FrontendEntry, tool_info)]

EvToolExecution(name, id, args) ==
    [type |-> "tool_execution", tool_name |-> name, tool_call_id |-> id, args |-> args]

\* Mutant of EvToolResult: the event carries the fallback name and id.
EvToolResultUnknown(name, id, result) ==
    [type |-> "tool_result", tool_name |-> "unknown", tool_call_id |-> "", result |-> result]

EvToolResult(name, id, result) ==
    [type |-> "tool_result", tool_name |-> name, tool_call_id |-> id, result |-> result]

EvEnd == [type |-> "end"]

\* --------------------------------------------- anthropic message conversion
\* _convert_messages_to_anthropic of one message; st is "ok", or the
\* decoder's failure when json.loads of a tool call's arguments raises.
ToolUseBlock(id, name, input) ==
    [type |-> "tool_use", id |-> id, name |-> name, input |-> input]

RECURSIVE ToolUseBlocks(_, _)
ToolUseBlocks(tool_calls, acc) ==
    IF Len(tool_calls) = 0 THEN [st |-> "ok", blocks |-> acc]
    ELSE Bind(JsonLoads(Head(tool_calls).function.arguments),
              LAMBDA input :
                IF input.st # "ok" THEN [st |-> input.st, blocks |-> <<>>]
                ELSE ToolUseBlocks(Tail(tool_calls),
                                   Append(acc, ToolUseBlock(Head(tool_calls).id,
                                                            Head(tool_calls).function.name,
                                                            input.v))))

ConvertMessage(message) ==
    IF message.role = "tool"
    THEN [st |-> "ok",
          msg |-> [role |-> "user",
                   content |-> <<[type |-> "tool_result",
                                  tool_use_id |-> message.tool_call_id,
                                  content |-> message.content]>>]]
    ELSE IF message.role = "assistant" /\ "tool_calls" \in DOMAIN message
    THEN Bind(ToolUseBlocks(message.tool_calls,
                            IF message.content # ""
                            THEN <<[type |-> "text", text |-> message.content]>> ELSE <<>>),
              LAMBDA tu : [st |-> tu.st,
                           msg |-> [role |-> "assistant", content |-> tu.blocks]])
    ELSE [st |-> "ok", msg |-> [role |-> message.role, content |-> message.content]]

RECURSIVE ConvertFrom(_, _)
ConvertFrom(msgs, acc) ==
    IF Len(msgs) = 0 THEN [st |-> "ok", msgs |-> acc]
    ELSE Bind(ConvertMessage(Head(msgs)),
              LAMBDA h : IF h.st # "ok" THEN [st |-> h.st, msgs |-> <<>>]
                         ELSE ConvertFrom(Tail(msgs), Append(acc, h.msg)))

_convert_messages_to_anthropic(msgs) == ConvertFrom(msgs, <<>>)

DecoderErrorText(st) == IF st = "rec" THEN RecursionErrorText ELSE JsonDecodeErrorText

\* ------------------------------------------------------------ create_model
Routers == {"openai-chat", "anthropic", "minimax-anthropic", "deepseek-openai"}

\* The chatToNextLoop a router's class runs.
LoopOf(r) == CASE r = "minimax-anthropic" -> "minimax"
               [] r = "deepseek-openai" -> "deepseek"
               [] OTHER -> "base"

\* The model_chat a router's class runs.
AdapterOf(r) == IF r \in {"anthropic", "minimax-anthropic"} THEN "anthropic" ELSE "openai"

\* ------------------------------------------------------- create_model
\* Router ids a caller may pass: the four create_model knows and two it
\* does not (the comparison is exact, so case matters).
RouterIds == Routers \cup {"openai", "Anthropic"}

UnsupportedRouterPrefix == "Unsupported router type: "

\* model_base.__init__: the attributes of a new model object. class is the
\* class instantiated; model_chat and chatToNextLoop name the class whose
\* method the object runs.
model_base(class, adapter_class, loop_class, flag, r) ==
    [raised |-> FALSE, class |-> class, model_chat |-> adapter_class,
     chatToNextLoop |-> loop_class, stream |-> flag, router |-> r,
     tools |-> <<>>, tool_dict |-> <<>>]

\* The constructors: each subclass adds its client to the base attributes.
WithClient(object, client) ==
    [f \in DOMAIN object \cup {"client"} |-> IF f = "client" THEN client ELSE object[f]]

openai_chat_completetion_model(flag, r) ==
    WithClient(model_base("openai_chat_completetion_model", "openai", "base", flag, r), "OpenAI")

anthropic_model(flag, r) ==
    WithClient(model_base("anthropic_model", "anthropic", "base", flag, r), "Anthropic")

minimax_anthropic_model(flag, r) ==
    WithClient(model_base("minimax_anthropic_model", "anthropic", "minimax", flag, r),
               "Anthropic")

deepseek_openai_model(flag, r) ==
    WithClient(model_base("deepseek_openai_model", "openai", "deepseek", flag, r), "OpenAI")

\* What leaves create_model when it raises ValueError.
ValueError(message) == [raised |-> TRUE, error |-> "ValueError", message |-> message]

\* Mutant of create_model: an unknown router falls back to the default one.
create_modelWithDefault(flag, r) ==
    CASE r = "anthropic" -> anthropic_model(flag, r)
      [] r = "minimax-anthropic" -> minimax_anthropic_model(flag, r)
      [] r = "deepseek-openai" -> deepseek_openai_model(flag, r)
      [] OTHER -> openai_chat_completetion_model(flag, "openai-chat")

create_model(flag, r) ==
    CASE r = "openai-chat" -> openai_chat_completetion_model(flag, r)
      [] r = "anthropic" -> anthropic_model(flag, r)
      [] r = "minimax-anthropic" -> minimax_anthropic_model(flag, r)
      [] r = "deepseek-openai" -> deepseek_openai_model(flag, r)
      [] OTHER -> ValueError(UnsupportedRouterPrefix \o r)

\* ---------------------------------------------------- model_tool_init
DefaultParameters == "{'type': 'object', 'properties': {}}"

\* Tool descriptors a caller may declare: two of them share a name, and one
\* has no parameters entry.
ToolDescriptors ==
    {[name |-> "add", description |-> "addition", function |-> "add",
      parameters |-> "{'type': 'object', 'properties': {'a': {}, 'b': {}}}"],
     [name |-> "add", description |-> "sum", function |-> "sum"],
     [name |-> "sub", description |-> "subtraction", function |-> "sub",
      parameters |-> "{'type': 'object', 'properties': {'a': {}, 'b': {}}}"]}

\* The lists a caller may pass to model_tool_init.
ToolLists == UNION {[1..n -> ToolDescriptors] : n \in 0..MaxTools}

\* One entry of _convert_tools_to_format's result.
ToolSchema(tool) ==
    [type |-> "function",
     function |-> [name |-> tool.name, description |-> tool.description,
                   parameters |-> IF "parameters" \in DOMAIN tool THEN tool.parameters
                                  ELSE DefaultParameters]]

_convert_tools_to_format(tool_list) == [k \in 1..Len(tool_list) |-> ToolSchema(tool_list[k])]

\* {tool["name"]: tool for tool in tool_list}: a later descriptor of a name
\* replaces an earlier one.
RECURSIVE NameIndex(_, _)
NameIndex(tool_list, acc) ==
    IF Len(tool_list) = 0 THEN acc
    ELSE NameIndex(Tail(tool_list),
                   [n \in DOMAIN acc \cup {Head(tool_list).name} |->
                       IF n = Head(tool_list).name THEN Head(tool_list) ELSE acc[n]])

\* Mutant of model_tool_init: the new tools are merged into the old ones.
model_tool_initMerging(object, tool_list) ==
    [object EXCEPT !.tool_dict = NameIndex(tool_list, @),
                   !.tools = @ \o _convert_tools_to_format(tool_list)]

\* The model object after model_tool_init(tool_list).
model_tool_init(object, tool_list) ==
    [object EXCEPT !.tool_dict = NameIndex(tool_list, <<>>),
                   !.tools = _convert_tools_to_format(tool_list)]

\* --------------------------------------------------- what the model may say
RECURSIVE Nested(_)
Nested(n) == IF n = 0 THEN "1" ELSE "[" \o Nested(n - 1) \o "]"

ValidArgs == "{\"a\": 1, \"b\": 2}"

QuotedArgs == "{'a': 1, 'b': 2}"

EmptyArgs == ""

MalformedArgs == "{a:1"

NullArgs == "null"

DeepArgs == Nested(RecursionLimit + 1)

\* The tool calls a model response may request: tool name and arguments text.
ToolChoices ==
    {[name |-> "add", arguments |-> a] :
        a \in {ValidArgs, QuotedArgs, EmptyArgs, MalformedArgs, NullArgs, DeepArgs}}
    \cup {[name |-> "nope", arguments |-> ValidArgs]}

ThinkDeltas == {"t"}

AnswerDeltas == {"3"}

\* Causes of a provider or transport failure inside model_chat.
TransportCauses == {"boom"}

\* Histories the caller may pass in.
InitHistories == {<<UserMsg("What's 1+2?")>>,
                  <<UserMsg("What's 1+2?"), AssistantMsg("3")>>}

Unbound == "<unbound>"

\* current_content_type = None in the anthropic stream handler.
NoContentType == "None"

\* An adapter event (MsgReturn): its gorType and content.
Item(gorType, content) == [gorType |-> gorType, content |-> content]

\* ------------------------------------------------------------------ state
VARIABLES
    router,             \* the router id the model was created with
    messages,           \* the caller's history list, mutated in place
    messages0,          \* the history as the caller passed it in
    log,                \* in order: events yielded, model_chat and execute_tool calls
    pc,                 \* position in chatToNextLoop and its helper
    interrupt,          \* what interrupt_check() returns
    rounds,             \* model_chat invocations so far
    items,              \* Think/Answer/ToolCall events delivered so far
    stream,             \* the running model_chat generator: "text", "tools", "failed"
    request,            \* the message list handed to the provider by the last model_chat
    reasoning_content,  \* locals of chatToNextLoop
    answer_content,
    tool_info,
    idx,                \* position of the helper's for loop in tool_info
    tool_name,          \* locals of the helper
    tool_call_id,
    tool_args,
    assistant_at,       \* where the helper's assistant_message sits in messages
    tool_results,       \* minimax helper's result blocks
    histAtCall,         \* messages when the current round's model call began
    histAtRaise,        \* messages when interrupt_check() started to return True
    histAtPoll,         \* messages at the first poll that returned True
    polledAt,           \* where that poll is: "event", "pre_tools", "tool" ("" if none)
    lastItem,           \* the last adapter event the loop processed
    handled,            \* tool calls of the round the helper has finished with
    streaming,          \* self.stream of the model object
    apc,                \* position in model_chat: "idle", "stream", "closed"
    events,             \* the MsgReturn objects model_chat has yielded, in order
    chunks,             \* provider chunks the stream handler has consumed
    tool_calls_dict,    \* openai stream handler: index -> accumulated tool call
    tool_calls,         \* anthropic stream handler: finished tool calls
    current_tool_call,  \* anthropic stream handler: the open tool_use block, or None
    current_content_type, \* anthropic stream handler: "thinking", "text" or None
    arrived,            \* stream handlers: the tool-call fragments (openai) or the
                        \* chunks (anthropic) consumed, in arrival order
    response,           \* normal handlers: the response object the provider call returned
    model,              \* what create_model gave the caller: None before the call
    initialized         \* the arguments of the latest model_tool_init calls (at most two)

locals == <<reasoning_content, answer_content, tool_info>>

helper == <<idx, tool_name, tool_call_id, tool_args, assistant_at, tool_results>>

ghosts == <<histAtCall, histAtRaise, histAtPoll, polledAt, lastItem, handled>>

\* The state of one model_chat generator.
adapter == <<streaming, apc, events, chunks, tool_calls_dict, tool_calls,
             current_tool_call, current_content_type, arrived, response>>

\* The state of chatToNextLoop.
orchestrator == <<router, messages, messages0, log, pc, interrupt, rounds, items, stream, request,
          locals, helper, ghosts>>

\* The model object in the caller's hands.
setup == <<model, initialized>>

vars == <<orchestrator, adapter, setup>>

IsOutward(e) == e.type \notin {"model_chat", "execute_tool"}

\* The events chatToNextLoop has yielded, in order.
Out == SelectSeq(log, IsOutward)

Emit(e) == log' = Append(log, e)

MarkModelChat(n) == [type |-> "model_chat", round |-> n]

MarkExecute(name, id, args) ==
    [type |-> "execute_tool", tool_name |-> name, tool_call_id |-> id, args |-> args]

\* A model object created for one of the routers, its history and its
\* stream flag (True unless the caller passes stream=False).
InitFor(routers, histories, flags) ==
    /\ router \in routers
    /\ messages0 \in histories
    /\ streaming \in flags
    /\ apc = "idle"
    /\ events = <<>>
    /\ chunks = 0
    /\ tool_calls_dict = <<>>
    /\ tool_calls = <<>>
    /\ current_tool_call = None
    /\ current_content_type = NoContentType
    /\ arrived = <<>>
    /\ response = None
    /\ messages = messages0
    /\ log = <<>>
    /\ pc = "call"
    /\ interrupt = FALSE
    /\ rounds = 0
    /\ items = 0
    /\ stream = "text"
    /\ request = <<>>
    /\ reasoning_content = ""
    /\ answer_content = ""
    /\ tool_info = <<>>
    /\ idx = 0
    /\ tool_name = Unbound
    /\ tool_call_id = Unbound
    /\ tool_args = None
    /\ assistant_at = 0
    /\ tool_results = <<>>
    /\ histAtCall = messages0
    /\ histAtRaise = <<>>
    /\ histAtPoll = <<>>
    /\ polledAt = ""
    /\ lastItem = Item("", "")
    /\ handled = 0

InitWith(histories, flags) == InitFor(Routers, histories, flags)

\* The model object as create_model returned it, before any model_tool_init.
Constructed ==
    /\ model = create_model(streaming, router)
    /\ initialized = <<>>

Init == InitWith(InitHistories, {TRUE}) /\ Constructed

\* A poll of interrupt_check() that returned True.
PolledTrue(where) ==
    /\ polledAt' = IF polledAt = "" THEN where ELSE polledAt
    /\ histAtPoll' = IF polledAt = "" THEN messages ELSE histAtPoll
    /\ UNCHANGED <<histAtCall, histAtRaise, lastItem, handled>>

\* The caller asks for the interrupt; the flag stays up for the rest of the run.
RaiseInterrupt ==
    /\ pc # "done"
    /\ ~interrupt
    /\ interrupt' = TRUE
    /\ histAtRaise' = messages
    /\ UNCHANGED <<router, messages, messages0, log, pc, rounds, items, stream, request,
                   locals, helper, histAtCall, histAtPoll, polledAt, lastItem, handled>>
    /\ UNCHANGED <<adapter, setup>>

\* ----------------------------------------------------------- model_chat
\* Top of the while loop: the round's locals are reset and model_chat is
\* invoked; the anthropic adapter first converts the history, and a failed
\* conversion leaves the generator with the one Error event to deliver.
ModelChat ==
    /\ pc = "call"
    /\ rounds < MaxRounds
    /\ rounds' = rounds + 1
    /\ reasoning_content' = ""
    /\ answer_content' = ""
    /\ tool_info' = <<>>
    /\ Emit(MarkModelChat(rounds + 1))
    /\ histAtCall' = messages
    /\ IF AdapterOf(router) = "anthropic"
       THEN LET conv == _convert_messages_to_anthropic(messages)
            IN IF conv.st = "ok"
               THEN stream' = "text" /\ request' = conv.msgs
               ELSE stream' = DecoderErrorText(conv.st) /\ request' = <<>>
       ELSE stream' = "text" /\ request' = messages
    /\ pc' = "recv"
    /\ handled' = 0
    /\ UNCHANGED <<router, messages, messages0, interrupt, items, helper,
                   histAtRaise, histAtPoll, polledAt, lastItem>>
    /\ UNCHANGED <<adapter, setup>>

\* Mutant of InterruptedAtEvent: the poll stands after the accumulation of
\* an answer delta.
InterruptedAfterAccumulating ==
    /\ Emit(EvInterrupted)
    /\ pc' = "done"
    /\ PolledTrue("event")
    /\ answer_content' = answer_content \o "3"
    /\ UNCHANGED <<router, messages, messages0, interrupt, rounds, items, stream, request,
                   reasoning_content, tool_info, helper>>

\* The per-event poll returned True: yield interrupted and return.
InterruptedAtEvent ==
    /\ Emit(EvInterrupted)
    /\ pc' = "done"
    /\ PolledTrue("event")
    /\ UNCHANGED <<router, messages, messages0, interrupt, rounds, items, stream, request,
                   locals, helper>>

StreamOpen == stream \in {"text", "tools"}

\* The poll returned False and the event is processed.
Processed(item) ==
    /\ lastItem' = item
    /\ UNCHANGED <<histAtCall, histAtRaise, histAtPoll, polledAt, handled>>

\* Mutant of AfterErrorItem: the error branch lacks its return.
AfterErrorItemContinues == "recv"

\* Where the loop goes after the error event of an Error item: it returns.
AfterErrorItem == "done"

RecvThink ==
    /\ pc = "recv"
    /\ stream = "text"
    /\ items < MaxItems
    /\ \E c \in ThinkDeltas :
        IF interrupt THEN InterruptedAtEvent
        ELSE /\ reasoning_content' = reasoning_content \o c
             /\ Emit(EvThinking(c))
             /\ items' = items + 1
             /\ Processed(Item("think", c))
             /\ UNCHANGED <<router, messages, messages0, pc, interrupt, rounds, stream,
                            request, answer_content, tool_info, helper>>
    /\ UNCHANGED <<adapter, setup>>

RecvAnswer ==
    /\ pc = "recv"
    /\ stream = "text"
    /\ items < MaxItems
    /\ \E c \in AnswerDeltas :
        IF interrupt THEN InterruptedAtEvent
        ELSE /\ answer_content' = answer_content \o c
             /\ Emit(EvAnswer(c))
             /\ items' = items + 1
             /\ Processed(Item("answer", c))
             /\ UNCHANGED <<router, messages, messages0, pc, interrupt, rounds, stream,
                            request, reasoning_content, tool_info, helper>>
    /\ UNCHANGED <<adapter, setup>>

\* The provider's id of the next tool call of the run.
NextToolId == "call_" \o NatStr(items + 1)

RecvTool ==
    /\ pc = "recv"
    /\ StreamOpen
    /\ items < MaxItems
    /\ \E tc \in ToolChoices :
        IF interrupt THEN InterruptedAtEvent
        ELSE /\ tool_info' = Append(tool_info, [id |-> NextToolId, name |-> tc.name,
                                                 arguments |-> tc.arguments])
             /\ stream' = "tools"
             /\ items' = items + 1
             /\ Processed(Item("tool", NextToolId))
             /\ UNCHANGED <<router, messages, messages0, log, pc, interrupt, rounds,
                            request, reasoning_content, answer_content, helper>>
    /\ UNCHANGED <<adapter, setup>>

\* The End event, after which the generator is exhausted.
RecvEnd ==
    /\ pc = "recv"
    /\ StreamOpen
    /\ IF interrupt THEN InterruptedAtEvent
       ELSE /\ pc' = "post"
            /\ Processed(Item("end", ""))
            /\ UNCHANGED <<router, messages, messages0, log, interrupt, rounds, items,
                           stream, request, locals, helper>>
    /\ UNCHANGED <<adapter, setup>>

\* model_chat caught an exception and yields the Error event.
RecvError ==
    /\ pc = "recv"
    /\ \E cause \in (IF StreamOpen THEN TransportCauses ELSE {stream}) :
        IF interrupt THEN InterruptedAtEvent
        ELSE /\ Emit(EvError(AdapterErrorPrefix \o cause))
             /\ pc' = AfterErrorItem
             /\ Processed(Item("error", AdapterErrorPrefix \o cause))
             /\ UNCHANGED <<router, messages, messages0, interrupt, rounds, items, stream,
                            request, locals, helper>>
    /\ UNCHANGED <<adapter, setup>>

\* ------------------------------------------------- after the event loop
\* minimax: the tool_use blocks added to content_blocks; json.loads of each
\* call's arguments text may raise.
RECURSIVE MinimaxToolUse(_, _)
MinimaxToolUse(tools, acc) ==
    IF Len(tools) = 0 THEN [st |-> "ok", blocks |-> acc]
    ELSE Bind(JsonLoads(Head(tools).arguments),
              LAMBDA input :
                IF input.st # "ok" THEN [st |-> input.st, blocks |-> <<>>]
                ELSE MinimaxToolUse(Tail(tools),
                                    Append(acc, ToolUseBlock(Head(tools).id,
                                                             Head(tools).name, input.v))))

\* minimax: content_blocks of the round.
ContentBlocks(thinking, answer, tools) ==
    MinimaxToolUse(tools,
                   (IF thinking # "" THEN <<[type |-> "thinking", thinking |-> thinking]>>
                    ELSE <<>>)
                   \o (IF answer # "" THEN <<[type |-> "text", text |-> answer]>> ELSE <<>>))

\* Mutant of LoopExcept: the exception leaves the generator unreported.
LoopExceptSilent(text) == <<>>

\* chatToNextLoop's except clause: the events it yields for an exception
\* whose str() is text.
LoopExcept(text) == <<EvError(ResponseErrorPrefix \o text)>>

\* Whether building content_blocks raises (minimax only).
BuildRaises ==
    LoopOf(router) = "minimax"
    /\ ContentBlocks(reasoning_content, answer_content, tool_info).st # "ok"

\* minimax: json.loads raised while content_blocks was built; the loop's
\* except clause yields the error event.
PostBuildFails ==
    /\ pc = "post"
    /\ BuildRaises
    /\ log' = log \o LoopExcept(DecoderErrorText(
            ContentBlocks(reasoning_content, answer_content, tool_info).st))
    /\ pc' = "done"
    /\ UNCHANGED <<router, messages, messages0, interrupt, rounds, items, stream, request,
                   locals, helper, ghosts>>
    /\ UNCHANGED <<adapter, setup>>

\* The poll before the tool phase returned True.
PostInterrupted ==
    /\ pc = "post"
    /\ ~BuildRaises
    /\ tool_info # <<>>
    /\ interrupt
    /\ Emit(EvInterrupted)
    /\ pc' = "done"
    /\ PolledTrue("pre_tools")
    /\ UNCHANGED <<router, messages, messages0, interrupt, rounds, items, stream, request,
                   locals, helper>>
    /\ UNCHANGED <<adapter, setup>>

\* Mutant of AssistantTurn: deepseek leaves out an empty reasoning_content.
AssistantTurnSparse(loop, thinking, answer, tools) ==
    CASE loop = "base" ->
            [role |-> "assistant", content |-> "", tool_calls |-> <<>>]
      [] loop = "deepseek" /\ thinking = "" ->
            [role |-> "assistant", content |-> answer,
             tool_calls |-> SeqMap(ToolCallEntry, tools)]
      [] loop = "deepseek" /\ thinking # "" ->
            [role |-> "assistant", content |-> answer, reasoning_content |-> thinking,
             tool_calls |-> SeqMap(ToolCallEntry, tools)]
      [] loop = "minimax" ->
            [role |-> "assistant", content |-> ContentBlocks(thinking, answer, tools).blocks]

\* The assistant turn message each variant appends before the tools run.
AssistantTurn(loop, thinking, answer, tools) ==
    CASE loop = "base" ->
            [role |-> "assistant", content |-> "", tool_calls |-> <<>>]
      [] loop = "deepseek" ->
            [role |-> "assistant", content |-> answer, reasoning_content |-> thinking,
             tool_calls |-> SeqMap(ToolCallEntry, tools)]
      [] loop = "minimax" ->
            [role |-> "assistant", content |-> ContentBlocks(thinking, answer, tools).blocks]

\* The round has tool calls: append the assistant turn message, yield the
\* tool_calls event and enter the helper's for loop.
PostStartTools ==
    /\ pc = "post"
    /\ ~BuildRaises
    /\ tool_info # <<>>
    /\ ~interrupt
    /\ messages' = Append(messages, AssistantTurn(LoopOf(router), reasoning_content,
                                                 answer_content, tool_info))
    /\ assistant_at' = Len(messages) + 1
    /\ Emit(EvToolCalls(tool_info))
    /\ idx' = 1
    /\ tool_name' = Unbound
    /\ tool_call_id' = Unbound
    /\ tool_args' = None
    /\ tool_results' = <<>>
    /\ pc' = "tools"
    /\ UNCHANGED <<router, messages0, interrupt, rounds, items, stream, request, locals,
                   ghosts>>
    /\ UNCHANGED <<adapter, setup>>

\* Mutant of AppendAnswer: a trailing assistant message is overwritten.
AppendAnswerOverwrites(msgs, answer) ==
    IF answer = "" THEN msgs
    ELSE IF Len(msgs) > 0 /\ Last(msgs).role = "assistant"
    THEN [msgs EXCEPT ![Len(msgs)] = AssistantMsg(answer)]
    ELSE Append(msgs, AssistantMsg(answer))

\* base: the in-loop append of the answer.
AppendAnswer(msgs, answer) ==
    IF answer # "" THEN Append(msgs, AssistantMsg(answer)) ELSE msgs

\* Mutant of PostLoopAppend: the append after the loop lacks its guard.
PostLoopAppendUnguarded(msgs, tools, answer) ==
    IF tools = <<>> /\ answer # "" THEN Append(msgs, AssistantMsg(answer)) ELSE msgs

\* base: the guarded append after the while loop.
PostLoopAppend(msgs, tools, answer) ==
    IF tools = <<>> /\ answer # ""
    THEN IF ~(Len(msgs) > 0 /\ Last(msgs).role = "assistant" /\ Last(msgs).content = answer)
         THEN Append(msgs, AssistantMsg(answer))
         ELSE msgs
    ELSE msgs

\* The history after a round without tool calls.
FinalHistory(loop, msgs, tools, answer) ==
    IF loop = "base" THEN PostLoopAppend(AppendAnswer(msgs, answer), tools, answer)
    ELSE AppendAnswer(msgs, answer)

\* The round has no tool calls: persist the answer, leave the while loop and
\* yield end.
PostFinish ==
    /\ pc = "post"
    /\ ~BuildRaises
    /\ tool_info = <<>>
    /\ messages' = FinalHistory(LoopOf(router), messages, tool_info, answer_content)
    /\ Emit(EvEnd)
    /\ pc' = "done"
    /\ UNCHANGED <<router, messages0, interrupt, rounds, items, stream, request, locals,
                   helper, ghosts>>
    /\ UNCHANGED <<adapter, setup>>

\* ------------------------------------------------- the tool-execution helper
\* Mutant of RecordResult: a failed call leaves no message in the history.
RecordResultSuccessOnly(loop, msgs, at, tool, id, text, listed) ==
    IF loop = "minimax" \/ ~listed THEN msgs
    ELSE Append(IF loop = "base"
                THEN [msgs EXCEPT ![at].tool_calls = Append(@, ToolCallEntry(tool))]
                ELSE msgs,
                ToolMsg(id, text))

\* The history after one tool result (or error text) has been recorded; the
\* base helper lists the call in assistant_message when listed is TRUE.
RecordResult(loop, msgs, at, tool, id, text, listed) ==
    CASE loop = "minimax" -> msgs
      [] loop = "deepseek" -> Append(msgs, ToolMsg(id, text))
      [] loop = "base" ->
            Append(IF listed
                   THEN [msgs EXCEPT ![at].tool_calls = Append(@, ToolCallEntry(tool))]
                   ELSE msgs,
                   ToolMsg(id, text))

\* minimax: tool_results after one result block was collected.
CollectResult(loop, results, id, text) ==
    IF loop = "minimax"
    THEN Append(results, [type |-> "tool_result", tool_use_id |-> id, content |-> text])
    ELSE results

\* The helper's for loop moves on; after the last call the helper returns
\* (minimax first appends the user message of result blocks) and the while
\* loop starts the next round.
HelperReturn(loop, msgs, results) ==
    IF loop = "minimax" THEN Append(msgs, [role |-> "user", content |-> results]) ELSE msgs

Advance(msgs, results) ==
    /\ handled' = handled + 1
    /\ UNCHANGED <<histAtCall, histAtRaise, histAtPoll, polledAt, lastItem>>
    /\ IF idx < Len(tool_info)
       THEN /\ idx' = idx + 1
            /\ pc' = "tools"
            /\ messages' = msgs
            /\ tool_results' = results
       ELSE /\ idx' = 0
            /\ pc' = "call"
            /\ messages' = HelperReturn(LoopOf(router), msgs, results)
            /\ tool_results' = results

\* Where the helper goes when its per-tool poll returns True: it yields
\* interrupted and returns to chatToNextLoop, whose while loop goes on.
AfterHelperInterrupt == "call"

\* Mutant of InterruptedHistory: the helper leaves its for loop with break,
\* so minimax still appends the result blocks collected so far.
InterruptedHistoryBreak(loop, msgs, results) == HelperReturn(loop, msgs, results)

\* The history the interrupted helper leaves: it returns at once (minimax:
\* before the collected result blocks are appended).
InterruptedHistory(loop, msgs, results) == msgs

ToolInterrupted ==
    /\ pc = "tools"
    /\ interrupt
    /\ Emit(EvInterrupted)
    /\ pc' = AfterHelperInterrupt
    /\ idx' = 0
    /\ messages' = InterruptedHistory(LoopOf(router), messages, tool_results)
    /\ PolledTrue("tool")
    /\ UNCHANGED <<router, messages0, interrupt, rounds, items, stream, request,
                   locals, tool_name, tool_call_id, tool_args, assistant_at, tool_results>>
    /\ UNCHANGED <<adapter, setup>>

ParseErrorText(arguments) == ParseErrorPrefix \o arguments

\* The parser returned None: yield the error tool_result, record it, continue.
ToolParseFails ==
    /\ pc = "tools"
    /\ ~interrupt
    /\ LET tool == tool_info[idx]
           parsed == _try_parse_tool_arguments(tool.arguments)
           text == ParseErrorText(tool.arguments)
       IN /\ ~parsed.raised
          /\ parsed.v = None
          /\ Emit(EvToolResult(tool.name, tool.id, text))
          /\ Advance(RecordResult(LoopOf(router), messages, assistant_at, tool, tool.id,
                                  text, FALSE),
                     CollectResult(LoopOf(router), tool_results, tool.id, text))
    /\ UNCHANGED <<router, messages0, interrupt, rounds, items, stream, request, locals,
                   tool_name, tool_call_id, tool_args, assistant_at>>
    /\ UNCHANGED <<adapter, setup>>

\* The parser itself raised; the helper's except clause reports it under
\* tool_name and tool_call_id, which still hold an earlier call's values.
ToolParseRaisesStale ==
    /\ pc = "tools"
    /\ ~interrupt
    /\ _try_parse_tool_arguments(tool_info[idx].arguments).raised
    /\ tool_name # Unbound
    /\ LET tool == tool_info[idx]
           text == ExecErrorPrefix \o RecursionErrorText
       IN /\ Emit(EvToolResult(tool_name, tool_call_id, text))
          /\ Advance(RecordResult(LoopOf(router), messages, assistant_at, tool,
                                  tool_call_id, text, FALSE),
                     CollectResult(LoopOf(router), tool_results, tool_call_id, text))
    /\ UNCHANGED <<router, messages0, interrupt, rounds, items, stream, request, locals,
                   tool_name, tool_call_id, tool_args, assistant_at>>
    /\ UNCHANGED <<adapter, setup>>

\* The parser raised before tool_name was ever bound: the except clause
\* raises UnboundLocalError, which chatToNextLoop's except clause reports.
ToolParseRaisesUnbound ==
    /\ pc = "tools"
    /\ ~interrupt
    /\ _try_parse_tool_arguments(tool_info[idx].arguments).raised
    /\ tool_name = Unbound
    /\ log' = log \o LoopExcept(UnboundLocalErrorText)
    /\ pc' = "done"
    /\ UNCHANGED <<router, messages, messages0, interrupt, rounds, items, stream, request,
                   locals, helper, ghosts>>
    /\ UNCHANGED <<adapter, setup>>

\* The arguments parsed: yield tool_execution and call the executor.
ToolExecute ==
    /\ pc = "tools"
    /\ ~interrupt
    /\ LET tool == tool_info[idx]
           parsed == _try_parse_tool_arguments(tool.arguments)
       IN /\ ~parsed.raised
          /\ parsed.v # None
          /\ tool_name' = tool.name
          /\ tool_call_id' = tool.id
          /\ tool_args' = parsed.v
          /\ log' = log \o <<EvToolExecution(tool.name, tool.id, parsed.v),
                             MarkExecute(tool.name, tool.id, parsed.v)>>
    /\ pc' = "exec"
    /\ UNCHANGED <<router, messages, messages0, interrupt, rounds, items, stream, request,
                   locals, idx, assistant_at, tool_results, ghosts>>
    /\ UNCHANGED <<adapter, setup>>

\* Mutant of ResultText: the except clause drops the exception's text.
ResultTextBare(r) == IF r.raised THEN ExecErrorPrefix ELSE r.text

\* The result text of a call: str(result), or the except clause's error_msg.
ResultText(r) == IF r.raised THEN ExecErrorPrefix \o r.text ELSE r.text

\* The executor returned or raised: yield the tool_result and record it.
ExecDone ==
    /\ pc = "exec"
    /\ LET tool == tool_info[idx]
           r == execute_tool(tool_name, tool_args)
           text == ResultText(r)
       IN /\ Emit(EvToolResult(tool_name, tool_call_id, text))
          /\ Advance(RecordResult(LoopOf(router), messages, assistant_at, tool,
                                  tool_call_id, text, ~r.raised),
                     CollectResult(LoopOf(router), tool_results, tool_call_id, text))
    /\ UNCHANGED <<router, messages0, interrupt, rounds, items, stream, request, locals,
                   tool_name, tool_call_id, tool_args, assistant_at>>
    /\ UNCHANGED <<adapter, setup>>

Next ==
    \/ RaiseInterrupt
    \/ ModelChat
    \/ RecvThink
    \/ RecvAnswer
    \/ RecvTool
    \/ RecvEnd
    \/ RecvError
    \/ PostBuildFails
    \/ PostInterrupted
    \/ PostStartTools
    \/ PostFinish
    \/ ToolInterrupted
    \/ ToolParseFails
    \/ ToolParseRaisesStale
    \/ ToolParseRaisesUnbound
    \/ ToolExecute
    \/ ExecDone

Spec == Init /\ [][Next]_vars

\* ------------------------------------------------------------ model_chat
\* One invocation of model_chat of the two adapter classes: the provider
\* call, the chunk loop of the stream handlers, the non-streaming handlers
\* and the except clause.

\* MsgReturn(content, type, gorType, ...); at is the number of the chunk
\* whose processing yielded the object (0 outside the chunk loop).
MsgReturn(content, type, gorType, at) ==
    [content |-> content, type |-> type, gorType |-> gorType, at |-> at]

\* A tool call record as both stream handlers build it.
ToolCall(id, name, arguments) ==
    [id |-> id, type |-> "function", function |-> [name |-> name, arguments |-> arguments]]

\* json.dumps of a str.
RECURSIVE Escaped(_)
Escaped(s) ==
    IF Len(s) = 0 THEN ""
    ELSE (CASE Ch(s, 1) = "\"" -> "\\\""
            [] Ch(s, 1) = "\\" -> "\\\\"
            [] OTHER -> Ch(s, 1)) \o Escaped(SubSeq(s, 2, Len(s)))

DumpStr(s) == "\"" \o Escaped(s) \o "\""

\* json.dumps of a decoded value (dict members in insertion order).
RECURSIVE DumpValue(_), DumpMembers(_), DumpElements(_)
DumpValue(v) ==
    CASE v.t = "none" -> "null"
      [] v.t = "int" -> IntStr(v.n)
      [] v.t = "str" -> DumpStr(v.s)
      [] v.t = "bool" -> IF v.b THEN "true" ELSE "false"
      [] v.t = "arr" -> "[" \o DumpElements(v.a) \o "]"
      [] v.t = "obj" -> "{" \o DumpMembers(v.m) \o "}"

DumpMembers(m) ==
    IF Len(m) = 0 THEN ""
    ELSE DumpStr(Head(m).k) \o ": " \o DumpValue(Head(m).v)
         \o (IF Len(m) > 1 THEN ", " ELSE "") \o DumpMembers(Tail(m))

DumpElements(a) ==
    IF Len(a) = 0 THEN ""
    ELSE DumpValue(Head(a)) \o (IF Len(a) > 1 THEN ", " ELSE "") \o DumpElements(Tail(a))

\* json.dumps(tool_call, ensure_ascii=False)
DumpToolCall(tc) ==
    "{\"id\": " \o DumpStr(tc.id) \o ", \"type\": " \o DumpStr(tc.type)
    \o ", \"function\": {\"name\": " \o DumpStr(tc.function.name)
    \o ", \"arguments\": " \o DumpStr(tc.function.arguments) \o "}}"

\* Mutant of ThinkEvent: the yield stands after the chunk loop.
ThinkEventAfterLoop(text, type, at) == MsgReturn(text, type, "think", 0)

ThinkEvent(text, type, at) == MsgReturn(text, type, "think", at)

AnswerEvent(text, type, at) == MsgReturn(text, type, "answer", at)

ToolEvent(tc) == MsgReturn(DumpToolCall(tc), "tool_calls", "tool", 0)

EndEvent == MsgReturn("", "end", "end", 0)

ErrorEvent(cause) == MsgReturn(AdapterErrorPrefix \o cause, "error", "error", 0)

\* Mutant of Closing: the handler returns without its End event.
ClosingWithoutEnd(tcs) == [k \in 1..Len(tcs) |-> ToolEvent(tcs[k])]

\* The tool events and the End event that close a handler.
Closing(tcs) == [k \in 1..Len(tcs) |-> ToolEvent(tcs[k])] \o <<EndEvent>>

\* ------------------------------------------------ openai stream handler
\* One entry of delta.tool_calls.
Fragment(index, id, name, arguments) ==
    [index |-> index, id |-> id, name |-> name, arguments |-> arguments]

\* One chunk of the stream; a chunk without choices is skipped.
Chunk(choices, reasoning, text, fragments) ==
    [choices |-> choices, reasoning_content |-> reasoning, content |-> text,
     tool_calls |-> fragments]

\* The chunks the provider may send.
OpenAIChunks ==
    {Chunk(FALSE, "", "", <<>>),
     Chunk(TRUE, "t", "", <<>>),
     Chunk(TRUE, "", "3", <<>>),
     Chunk(TRUE, "t", "3", <<>>),
     Chunk(TRUE, "", "", <<Fragment(0, "id_a", "add", "{\"a\"")>>),
     Chunk(TRUE, "", "", <<Fragment(0, "id_b", "", ": 1}")>>),
     Chunk(TRUE, "", "", <<Fragment(1, "id_c", "no", "[")>>),
     Chunk(TRUE, "", "", <<Fragment(1, "id_d", "pe", "]")>>),
     Chunk(TRUE, "", "", <<Fragment(1, "", "x", "2")>>),
     Chunk(TRUE, "", "", <<Fragment(2, "id_e", "add", "{}")>>)}

Put(d, k, v) == [i \in DOMAIN d \cup {k} |-> IF i = k THEN v ELSE d[i]]

\* Mutant of Merged: a later id replaces the one already recorded.
MergedLastId(d, f) ==
    IF f.index \notin DOMAIN d
    THEN Put(d, f.index, ToolCall(f.id, f.name, f.arguments))
    ELSE Put(d, f.index,
             [d[f.index] EXCEPT
                 !.id = IF f.id # "" THEN f.id ELSE @,
                 !.function.name = @ \o f.name,
                 !.function.arguments = @ \o f.arguments])

\* tool_calls_dict after one fragment.
Merged(d, f) ==
    IF f.index \notin DOMAIN d
    THEN Put(d, f.index, ToolCall(f.id, f.name, f.arguments))
    ELSE Put(d, f.index,
             [d[f.index] EXCEPT
                 !.id = IF f.id # "" /\ @ = "" THEN f.id ELSE @,
                 !.function.name = @ \o f.name,
                 !.function.arguments = @ \o f.arguments])

RECURSIVE MergedAll(_, _)
MergedAll(d, fragments) ==
    IF Len(fragments) = 0 THEN d
    ELSE MergedAll(Merged(d, Head(fragments)), Tail(fragments))

\* Mutant of SortedValues: the entries in the order their index was first seen.
RECURSIVE FirstSeenValues(_, _)
FirstSeenValues(d, keys) ==
    IF keys = {} THEN <<>>
    ELSE LET first == CHOOSE k \in keys :
                        \A j \in keys :
                          (CHOOSE n \in 1..Len(arrived) : arrived[n].index = k)
                          <= (CHOOSE n \in 1..Len(arrived) : arrived[n].index = j)
         IN <<d[first]>> \o FirstSeenValues(d, keys \ {first})

\* [d[i] for i in sorted(d.keys())]
RECURSIVE SortedValues(_, _)
SortedValues(d, keys) ==
    IF keys = {} THEN <<>>
    ELSE <<d[CHOOSE k \in keys : \A j \in keys : k <= j]>>
         \o SortedValues(d, keys \ {CHOOSE k \in keys : \A j \in keys : k <= j})

HasId(tc) == tc.id # ""

\* Mutant of Finalized: entries without an id are kept.
FinalizedUnfiltered(d) == SortedValues(d, DOMAIN d)

\* The list built after the chunk loop: by index, entries with an id only.
Finalized(d) == SelectSeq(SortedValues(d, DOMAIN d), HasId)

\* The events one chunk yields while it is processed as chunk number n.
OpenAIChunkEvents(c, n) ==
    IF ~c.choices THEN <<>>
    ELSE (IF c.reasoning_content # ""
          THEN <<ThinkEvent(c.reasoning_content, "reasoning", n)>> ELSE <<>>)
         \o (IF c.content # "" THEN <<AnswerEvent(c.content, "content", n)>> ELSE <<>>)

\* --------------------------------------------- anthropic stream handler
BlockStart(block) == [type |-> "content_block_start", content_block |-> block]

BlockDelta(delta) == [type |-> "content_block_delta", delta |-> delta]

BlockStop == [type |-> "content_block_stop"]

ToolUseStart(id, name) == BlockStart([type |-> "tool_use", id |-> id, name |-> name])

\* The chunks the provider may send (message_start stands for the chunk
\* types the handler passes over).
AnthropicChunks ==
    {[type |-> "message_start"],
     ToolUseStart("toolu_a", "add"),
     ToolUseStart("toolu_b", "nope"),
     BlockStart([type |-> "thinking"]),
     BlockStart([type |-> "text"]),
     BlockDelta([type |-> "text_delta", text |-> "3"]),
     BlockDelta([type |-> "thinking_delta", thinking |-> "t"]),
     BlockDelta([type |-> "input_json_delta", partial_json |-> "{}"]),
     BlockStop}

\* Mutant of ToolCallAfter: a fragment replaces the arguments text.
ToolCallAfterLastFragment(c, cur) ==
    CASE c.type = "content_block_start" /\ c.content_block.type = "tool_use" ->
            ToolCall(c.content_block.id, c.content_block.name, "")
      [] c.type = "content_block_delta" /\ c.delta.type = "input_json_delta" /\ cur # None ->
            [cur EXCEPT !.function.arguments = c.delta.partial_json]
      [] c.type = "content_block_stop" -> None
      [] OTHER -> cur

\* current_tool_call after the chunk.
ToolCallAfter(c, cur) ==
    CASE c.type = "content_block_start" /\ c.content_block.type = "tool_use" ->
            ToolCall(c.content_block.id, c.content_block.name, "")
      [] c.type = "content_block_delta" /\ c.delta.type = "input_json_delta" /\ cur # None ->
            [cur EXCEPT !.function.arguments = @ \o c.delta.partial_json]
      [] c.type = "content_block_stop" -> None
      [] OTHER -> cur

\* current_content_type after the chunk.
ContentTypeAfter(c, cur) ==
    CASE c.type = "content_block_start" /\ c.content_block.type \in {"thinking", "text"} ->
            c.content_block.type
      [] c.type = "content_block_stop" -> NoContentType
      [] OTHER -> cur

\* tool_calls after the chunk.
ToolCallsAfter(c, cur, done) ==
    IF c.type = "content_block_stop" /\ cur # None THEN Append(done, cur) ELSE done

\* The events one chunk yields while it is processed as chunk number n.
AnthropicChunkEvents(c, n, content_type) ==
    IF c.type # "content_block_delta" THEN <<>>
    ELSE CASE c.delta.type = "text_delta" /\ content_type = "thinking" ->
                <<ThinkEvent(c.delta.text, "thinking", n)>>
           [] c.delta.type = "text_delta" /\ content_type # "thinking" ->
                <<AnswerEvent(c.delta.text, "text", n)>>
           [] c.delta.type = "thinking_delta" ->
                <<ThinkEvent(c.delta.thinking, "thinking", n)>>
           [] OTHER -> <<>>

\* ------------------------------------------------- non-streaming handlers
RECURSIVE SeqsUpTo(_, _)
SeqsUpTo(S, n) ==
    IF n = 0 THEN {<<>>}
    ELSE SeqsUpTo(S, n - 1) \cup {Append(s, x) : s \in SeqsUpTo(S, n - 1), x \in S}

\* message.content and message.tool_calls of an openai response.
OpenAIResponses ==
    {[content |-> c, tool_calls |-> t] :
        c \in {"", "3"},
        t \in SeqsUpTo({ToolCall("id_a", "add", ValidArgs), ToolCall("id_c", "nope", "[]")},
                       MaxBlocks)}

\* The events of _handle_normal_response (openai).
OpenAINormalEvents(message) ==
    (IF message.content # "" THEN <<AnswerEvent(message.content, "content", 0)>> ELSE <<>>)
    \o Closing(message.tool_calls)

\* response.content of an anthropic response: its blocks.
AnthropicBlocks ==
    {[type |-> "text", text |-> "3"],
     [type |-> "thinking", thinking |-> "t"],
     [type |-> "tool_use", id |-> "toolu_a", name |-> "add",
      input |-> JObj(<<[k |-> "a", v |-> JInt(1)], [k |-> "b", v |-> JInt(2)]>>)],
     [type |-> "tool_use", id |-> "toolu_b", name |-> "nope", input |-> JObj(<<>>)]}

AnthropicResponses == SeqsUpTo(AnthropicBlocks, MaxBlocks)

\* Mutant of BlockText: only the first block of the type is kept.
BlockTextFirst(blocks, type) ==
    IF \E k \in 1..Len(blocks) : blocks[k].type = type
    THEN blocks[CHOOSE k \in 1..Len(blocks) :
                    /\ blocks[k].type = type
                    /\ \A j \in 1..(k - 1) : blocks[j].type # type][type]
    ELSE ""

\* The text of the blocks of one type ("text" or "thinking", which is also
\* the name of the attribute that holds it), concatenated.
RECURSIVE BlockText(_, _)
BlockText(blocks, type) ==
    IF Len(blocks) = 0 THEN ""
    ELSE (IF Head(blocks).type = type THEN Head(blocks)[type] ELSE "")
         \o BlockText(Tail(blocks), type)

RECURSIVE BlockToolCalls(_)
BlockToolCalls(blocks) ==
    IF Len(blocks) = 0 THEN <<>>
    ELSE (IF Head(blocks).type = "tool_use"
          THEN <<ToolCall(Head(blocks).id, Head(blocks).name, DumpValue(Head(blocks).input))>>
          ELSE <<>>)
         \o BlockToolCalls(Tail(blocks))

\* The events of _handle_normal_response (anthropic).
AnthropicNormalEvents(blocks) ==
    (IF BlockText(blocks, "thinking") # ""
     THEN <<ThinkEvent(BlockText(blocks, "thinking"), "thinking", 0)>> ELSE <<>>)
    \o (IF BlockText(blocks, "text") # ""
        THEN <<AnswerEvent(BlockText(blocks, "text"), "text", 0)>> ELSE <<>>)
    \o Closing(BlockToolCalls(blocks))

\* ------------------------------------------------ the steps of model_chat
\* The provider call of either handler raises: model_chat's except clause
\* yields the Error event.
CreateRaises ==
    /\ apc = "idle"
    /\ \E cause \in TransportCauses : events' = Append(events, ErrorEvent(cause))
    /\ apc' = "closed"
    /\ UNCHANGED <<streaming, chunks, tool_calls_dict, tool_calls, current_tool_call,
                   current_content_type, arrived, response>>
    /\ UNCHANGED <<orchestrator, setup>>

\* stream=True: the provider call returns the chunk iterator.
OpenStream ==
    /\ apc = "idle"
    /\ streaming
    /\ apc' = "stream"
    /\ UNCHANGED <<streaming, events, chunks, tool_calls_dict, tool_calls, current_tool_call,
                   current_content_type, arrived, response>>
    /\ UNCHANGED <<orchestrator, setup>>

\* stream=False, openai: the one response is turned into events.
NormalOpenAI ==
    /\ apc = "idle"
    /\ ~streaming
    /\ AdapterOf(router) = "openai"
    /\ \E message \in OpenAIResponses :
          /\ events' = events \o OpenAINormalEvents(message)
          /\ tool_calls' = message.tool_calls
          /\ response' = message
    /\ apc' = "closed"
    /\ UNCHANGED <<streaming, chunks, tool_calls_dict, current_tool_call,
                   current_content_type, arrived>>
    /\ UNCHANGED <<orchestrator, setup>>

\* stream=False, anthropic: the one response is turned into events.
NormalAnthropic ==
    /\ apc = "idle"
    /\ ~streaming
    /\ AdapterOf(router) = "anthropic"
    /\ \E blocks \in AnthropicResponses :
          /\ events' = events \o AnthropicNormalEvents(blocks)
          /\ tool_calls' = BlockToolCalls(blocks)
          /\ response' = blocks
    /\ apc' = "closed"
    /\ UNCHANGED <<streaming, chunks, tool_calls_dict, current_tool_call,
                   current_content_type, arrived>>
    /\ UNCHANGED <<orchestrator, setup>>

\* openai: one pass of the chunk loop.
OpenAIChunk ==
    /\ apc = "stream"
    /\ AdapterOf(router) = "openai"
    /\ chunks < MaxChunks
    /\ \E c \in OpenAIChunks :
          /\ events' = events \o OpenAIChunkEvents(c, chunks + 1)
          /\ tool_calls_dict' = IF c.choices THEN MergedAll(tool_calls_dict, c.tool_calls)
                                ELSE tool_calls_dict
          /\ arrived' = IF c.choices THEN arrived \o c.tool_calls ELSE arrived
    /\ chunks' = chunks + 1
    /\ UNCHANGED <<streaming, apc, tool_calls, current_tool_call, current_content_type,
                   response>>
    /\ UNCHANGED <<orchestrator, setup>>

\* anthropic: one pass of the chunk loop.
AnthropicChunk ==
    /\ apc = "stream"
    /\ AdapterOf(router) = "anthropic"
    /\ chunks < MaxChunks
    /\ \E c \in AnthropicChunks :
          /\ events' = events \o AnthropicChunkEvents(c, chunks + 1, current_content_type)
          /\ current_tool_call' = ToolCallAfter(c, current_tool_call)
          /\ current_content_type' = ContentTypeAfter(c, current_content_type)
          /\ tool_calls' = ToolCallsAfter(c, current_tool_call, tool_calls)
          /\ arrived' = Append(arrived, c)
    /\ chunks' = chunks + 1
    /\ UNCHANGED <<streaming, apc, tool_calls_dict, response>>
    /\ UNCHANGED <<orchestrator, setup>>

\* The chunk iterator raises: model_chat's except clause yields the Error
\* event after whatever was yielded before.
StreamRaises ==
    /\ apc = "stream"
    /\ \E cause \in TransportCauses : events' = Append(events, ErrorEvent(cause))
    /\ apc' = "closed"
    /\ UNCHANGED <<streaming, chunks, tool_calls_dict, tool_calls, current_tool_call,
                   current_content_type, arrived, response>>
    /\ UNCHANGED <<orchestrator, setup>>

\* The list of tool calls a stream handler has when its chunk loop is over.
StreamToolCalls ==
    IF AdapterOf(router) = "openai" THEN Finalized(tool_calls_dict) ELSE tool_calls

\* The chunk iterator is exhausted: the tool events and End are yielded.
StreamEnds ==
    /\ apc = "stream"
    /\ tool_calls' = StreamToolCalls
    /\ events' = events \o Closing(StreamToolCalls)
    /\ apc' = "closed"
    /\ UNCHANGED <<streaming, chunks, tool_calls_dict, current_tool_call,
                   current_content_type, arrived, response>>
    /\ UNCHANGED <<orchestrator, setup>>

AdapterNext ==
    \/ CreateRaises
    \/ OpenStream
    \/ NormalOpenAI
    \/ NormalAnthropic
    \/ OpenAIChunk
    \/ AnthropicChunk
    \/ StreamRaises
    \/ StreamEnds

\* One model_chat invocation of a model object of either adapter class, with
\* either stream flag.
AdapterInit == InitWith({<<UserMsg("What's 1+2?")>>}, BOOLEAN) /\ Constructed

AdapterSpec == AdapterInit /\ [][AdapterNext]_vars

\* ------------------------------------- creating and equipping a model
\* The caller calls create_model with its router id and stream flag.
CreateModel ==
    /\ model = None
    /\ model' = create_model(streaming, router)
    /\ UNCHANGED <<initialized, orchestrator, adapter>>

\* The caller calls model_tool_init on the model it got.
ModelToolInit ==
    /\ model # None
    /\ ~model.raised
    /\ \E tool_list \in ToolLists :
          /\ model' = model_tool_init(model, tool_list)
          /\ initialized' = IF Len(initialized) = 2 THEN <<initialized[2], tool_list>>
                            ELSE Append(initialized, tool_list)
    /\ UNCHANGED <<orchestrator, adapter>>

SetupNext ==
    \/ CreateModel
    \/ ModelToolInit

\* A caller that has chosen a router id and a stream flag and has not
\* created the model yet.
SetupInit ==
    /\ InitFor(RouterIds, {<<>>}, BOOLEAN)
    /\ model = None
    /\ initialized = <<>>

SetupSpec == SetupInit /\ [][SetupNext]_vars

\* ------------------------------------------------ properties of the loop
Positions(seq, type) == {i \in 1..Len(seq) : seq[i].type = type}

CountOf(seq, type) == Cardinality(Positions(seq, type))

TerminalTypes == {"end", "error", "interrupted"}

\* chatToNextLoop has returned.
Stopped == pc = "done"

\* C1: a run yields at most one interrupted event and no event after it,
\* wherever the True poll is (per event, before the tool phase, per tool).
C1_InterruptedIsLast ==
    \A i \in 1..Len(Out) : Out[i].type = "interrupted" => i = Len(Out)

\* C2: once interrupted has been yielded, model_chat and the executor are
\* not invoked again in the run.
C2_NoInvocationAfterInterrupted ==
    \A i \in Positions(log, "interrupted") :
        \A j \in (i + 1)..Len(log) : log[j].type \notin {"model_chat", "execute_tool"}

C4_StopsWithTerminalEvent ==
    Stopped => (Len(Out) > 0 /\ Last(Out).type \in TerminalTypes)

\* C4's case: the helper's except clause itself raised (tool_name unbound)
\* after events had been yielded, and the run ended with the error event.
C4_Witness ==
    /\ Stopped
    /\ Last(Out) = EvError(ResponseErrorPrefix \o UnboundLocalErrorText)
    /\ CountOf(Out, "tool_calls") > 0

\* C5: an Error event (poll False) gives exactly one error event carrying
\* its content, no end, no later invocation, and the history of the moment
\* the round's model call began.
C5_ErrorItemAborts ==
    lastItem.gorType = "error" =>
        /\ Stopped
        /\ Last(log) = EvError(lastItem.content)
        /\ CountOf(Out, "error") = 1
        /\ CountOf(Out, "end") = 0
        /\ messages = histAtCall

\* C5's case: the Error event came in a second round, after answer text of
\* that round had been streamed.
C5_Witness ==
    /\ lastItem.gorType = "error"
    /\ rounds = 2
    /\ answer_content # ""
    /\ Last(Out).type = "error"

ParseFails(arguments) ==
    /\ ~_try_parse_tool_arguments(arguments).raised
    /\ _try_parse_tool_arguments(arguments).v = None

\* The events yielded since the current round's model call.
RoundLog == SubSeq(log, CHOOSE i \in Positions(log, "model_chat") :
                            \A j \in Positions(log, "model_chat") : j <= i, Len(log))

\* C6: in every variant a round whose only tool call has the malformed
\* arguments text yields an error tool_result for it, does not invoke the
\* executor for it, and is not aborted with an error event.
C6_MalformedCallNotFatal ==
    (/\ Len(tool_info) = 1
     /\ tool_info[1].arguments = MalformedArgs
     /\ lastItem.gorType = "end"
     /\ pc \in {"call", "done"}
     /\ polledAt = "") =>
        /\ \E i \in Positions(RoundLog, "tool_result") :
              RoundLog[i] = EvToolResult(tool_info[1].name, tool_info[1].id,
                                         ParseErrorText(MalformedArgs))
        /\ Positions(RoundLog, "execute_tool") = {}
        /\ Last(Out).type # "error"

\* The tool_call_id's of the round's events of one type, in order.
RoundIds(type) ==
    LET evs == SelectSeq(RoundLog, LAMBDA e : e.type = type)
    IN [i \in 1..Len(evs) |-> evs[i].tool_call_id]

ToolMessagesFor(id) ==
    {i \in 1..Len(messages) : messages[i].role = "tool" /\ messages[i].tool_call_id = id}

C8_OneResultPerCall ==
    (/\ tool_info # <<>>
     /\ lastItem.gorType = "end"
     /\ pc \in {"call", "done"}
     /\ ~interrupt) =>
        RoundIds("tool_result") = [k \in 1..Len(tool_info) |-> tool_info[k].id]

ExecRaises(mark) == execute_tool(mark.tool_name, mark.args).raised

ExecErrorText(mark) == ExecErrorPrefix \o execute_tool(mark.tool_name, mark.args).text

\* The tool result recorded in the history for a call id.
RecordedFor(id, text) ==
    IF LoopOf(router) = "minimax"
    THEN LET block == [type |-> "tool_result", tool_use_id |-> id, content |-> text]
         IN \/ \E i \in 1..Len(tool_results) : pc # "call" /\ tool_results[i] = block
            \/ \E i \in 1..Len(messages) :
                 /\ messages[i].role = "user"
                 /\ i > Len(messages0)
                 /\ \E b \in 1..Len(messages[i].content) : messages[i].content[b] = block
    ELSE \E i \in ToolMessagesFor(id) : messages[i].content = text

\* C9: when the executor raises for a call, the next thing the loop does is
\* yield that call's tool_result with the stringified exception; the same
\* text is recorded as the call's result in the history; no error event is
\* yielded for it; and, the round not being interrupted, the loop goes on to
\* the next model call.
C9_ExecutorFailureIsolated ==
    \A i \in Positions(log, "execute_tool") :
        (ExecRaises(log[i]) /\ i < Len(log)) =>
            /\ log[i + 1] = EvToolResult(log[i].tool_name, log[i].tool_call_id,
                                         ExecErrorText(log[i]))
            /\ ~interrupt => RecordedFor(log[i].tool_call_id, ExecErrorText(log[i]))
            /\ (~interrupt /\ handled = Len(tool_info) /\ i > Len(log) - Len(RoundLog))
                  => pc = "call"

\* C9's case: the unknown tool made SimpleFunctionExecutor raise and the
\* model was invoked for the next round.
C9_Witness ==
    /\ rounds = 2
    /\ \E i \in Positions(log, "execute_tool") :
          /\ log[i].tool_name = "nope"
          /\ log[i + 1].result = ExecErrorPrefix \o ToolNotFoundText("nope")
          /\ \E j \in Positions(log, "model_chat") : j > i
    /\ CountOf(Out, "error") = 0

RECURSIVE Alternating(_)
Alternating(msgs) ==
    Len(msgs) < 2 \/ (msgs[1].role # msgs[2].role /\ Alternating(Tail(msgs)))

\* C10: anthropic adapter under the base loop, from an alternating history
\* that ends with a user message: the converted list handed to the provider
\* never has two neighbours of the same role.
C10_RequestAlternates ==
    (/\ router = "anthropic"
     /\ Alternating(messages0)
     /\ Last(messages0).role = "user") => Alternating(request)

\* A run of a single round that had no tool calls and ended normally.
SingleAnswerRun ==
    /\ Stopped
    /\ rounds = 1
    /\ tool_info = <<>>
    /\ Last(Out) = EvEnd

\* C11: the base loop re-invoked on a history that already ends with the
\* assistant answer, the model giving that same answer and no tool calls,
\* leaves the history as it was.
C11_NoDuplicateAnswer ==
    (/\ LoopOf(router) = "base"
     /\ SingleAnswerRun
     /\ Last(messages0).role = "assistant"
     /\ answer_content = Last(messages0).content) => messages = messages0

\* The messages a round without tool calls is to persist.
AnswerMessages(answer) == IF answer # "" THEN <<AssistantMsg(answer)>> ELSE <<>>

\* C12: a round without tool calls (poll False throughout) stops the loop
\* with end, having appended exactly one assistant message with the round's
\* answer text when that text is non-empty and nothing when it is empty.
C12_AnswerPersistedOnce ==
    (/\ lastItem.gorType = "end"
     /\ tool_info = <<>>
     /\ pc \notin {"recv", "post"}
     /\ polledAt = "") =>
        /\ Stopped
        /\ Last(Out) = EvEnd
        /\ messages = histAtCall \o AnswerMessages(answer_content)

\* C12's case: the base loop finished a round without tool calls on a
\* history whose last message already was that answer, so that the in-loop
\* append fired and the guarded append after the loop did not.
C12_Witness ==
    /\ LoopOf(router) = "base"
    /\ SingleAnswerRun
    /\ answer_content # ""
    /\ Last(messages0) = AssistantMsg(answer_content)
    /\ Len(messages) = Len(messages0) + 1

\* The call add(1, 2) as the provider reports it first in a run.
AddOneTwo == [id |-> "call_1", name |-> "add", arguments |-> ValidArgs]

\* The run of the example: one user message, the model asks for add(1, 2)
\* and nothing else, and in the next round it answers "3" and nothing else
\* (two adapter events in all besides the End events).
ExampleRun ==
    /\ LoopOf(router) = "base"
    /\ Len(messages0) = 1
    /\ Stopped
    /\ rounds = 2
    /\ items = 2
    /\ Out[1] = EvToolCalls(<<AddOneTwo>>)
    /\ answer_content = "3"
    /\ Last(Out) = EvEnd

\* C13: the example run yields tool_calls, tool_execution, tool_result "3",
\* answer "3", end, and leaves the history user, assistant tool-call
\* message, tool message keyed by the call id, assistant answer.
C13_ExampleRun ==
    ExampleRun =>
        /\ Out = <<EvToolCalls(<<AddOneTwo>>),
                   [type |-> "tool_execution", tool_name |-> "add", tool_call_id |-> "call_1",
                    args |-> JObj(<<[k |-> "a", v |-> JInt(1)], [k |-> "b", v |-> JInt(2)]>>)],
                   [type |-> "tool_result", tool_name |-> "add", tool_call_id |-> "call_1",
                    result |-> "3"],
                   [type |-> "answer", content |-> "3"],
                   [type |-> "end"]>>
        /\ messages = <<messages0[1],
                        [role |-> "assistant", content |-> "",
                         tool_calls |-> <<[id |-> "call_1", type |-> "function",
                                           function |-> [name |-> "add",
                                                         arguments |-> ValidArgs]]>>],
                        [role |-> "tool", tool_call_id |-> "call_1", content |-> "3"],
                        [role |-> "assistant", content |-> "3"]>>

\* C13's case: the example run has finished with its four messages.
C13_Witness ==
    /\ ExampleRun
    /\ router = "openai-chat"
    /\ Len(messages) = 4
    /\ CountOf(log, "execute_tool") = 1

IsPrefix(s, t) == Len(s) <= Len(t) /\ SubSeq(t, 1, Len(s)) = s

\* The base helper keeps a reference to the assistant message it appended
\* at the start of the tool phase and lists each executed call in it; the
\* message stays the same list element.
ListsCallInPlace(i) ==
    /\ LoopOf(router) = "base"
    /\ pc = "exec"
    /\ i = assistant_at
    /\ i > Len(messages0)
    /\ messages'[i] = [messages[i] EXCEPT
                          !.tool_calls = Append(@, ToolCallEntry(tool_info[idx]))]

\* C14: the caller's initial history stays a prefix of the history, the
\* length never decreases, and every step leaves each message of the list in
\* its place: the list is only appended to (the one field that changes in
\* place is tool_calls of the base helper's own assistant message).
C14_InitialHistoryKept ==
    /\ [](IsPrefix(messages0, messages))
    /\ [][/\ Len(messages') >= Len(messages)
          /\ \A i \in 1..Len(messages) : messages'[i] = messages[i] \/ ListsCallInPlace(i)]_vars

\* C14's case: the base helper has listed an executed call in its assistant
\* message and recorded the call's result after it.
C14_Witness ==
    /\ LoopOf(router) = "base"
    /\ assistant_at > Len(messages0)
    /\ Len(messages) > assistant_at
    /\ messages[assistant_at].tool_calls # <<>>
    /\ IsPrefix(messages0, messages)

\* The part of the log from the model call before position q up to q - 1.
SegmentBefore(q) ==
    SubSeq(log, CHOOSE p \in Positions(log, "model_chat") :
                    p < q /\ \A r \in Positions(log, "model_chat") : r < q => r <= p,
           q - 1)

\* Every call announced by the round's tool_calls event has its tool_result.
AllProcessed(seg) ==
    \A i \in Positions(seg, "tool_calls") :
        CountOf(seg, "tool_result") = Len(seg[i].tool_calls)

\* The position of a call id in the round's call list.
CallIndex(id) == CHOOSE k \in 1..Len(tool_info) : tool_info[k].id = id

\* C15: the calls of a round run one at a time in call-list order (each
\* executor call sits between its tool_execution and its tool_result, and
\* executor calls follow the call list), and a further model call is made
\* only after every call of the round before it has been processed.
C15_OneAtATimeInOrder ==
    /\ \A p \in Positions(log, "execute_tool") :
          /\ log[p - 1].type = "tool_execution"
          /\ log[p - 1].tool_call_id = log[p].tool_call_id
          /\ p < Len(log) =>
                (log[p + 1].type = "tool_result"
                 /\ log[p + 1].tool_call_id = log[p].tool_call_id)
    /\ rounds > 0 =>
          \A p, q \in Positions(RoundLog, "execute_tool") :
            p < q => CallIndex(RoundLog[p].tool_call_id) < CallIndex(RoundLog[q].tool_call_id)
    /\ \A q \in Positions(log, "model_chat") : q > 1 => AllProcessed(SegmentBefore(q))

\* C15 without the interrupt: the same property in runs where the interrupt
\* predicate stays False.
C15_InOrderUninterrupted == ~interrupt => C15_OneAtATimeInOrder

\* sub occurs in the text s.
Contains(s, sub) ==
    \E i \in 1..(Len(s) - Len(sub) + 1) : SubSeq(s, i, i + Len(sub) - 1) = sub

\* The messages the current round has appended.
AppendedInRound == {i \in 1..Len(messages) : i > Len(histAtCall)}

\* C16: deepseek loop, a finished round without tool calls whose reasoning
\* text is non-empty: what the round persisted is an assistant message with
\* the fields role and content only, content being the answer text, and the
\* reasoning text is in none of its fields.
C16_ReasoningNotPersisted ==
    (/\ LoopOf(router) = "deepseek"
     /\ Stopped
     /\ Last(Out) = EvEnd
     /\ tool_info = <<>>
     /\ reasoning_content # "") =>
        \A i \in AppendedInRound :
            /\ DOMAIN messages[i] = {"role", "content"}
            /\ messages[i].role = "assistant"
            /\ messages[i].content = answer_content
            /\ ~Contains(messages[i].content, reasoning_content)

\* C16's case: the round streamed reasoning text and an answer, and the
\* answer was persisted.
C16_Witness ==
    /\ LoopOf(router) = "deepseek"
    /\ Stopped
    /\ Last(Out) = EvEnd
    /\ reasoning_content # ""
    /\ answer_content # ""
    /\ AppendedInRound # {}

ExpectedBlocks ==
    (IF reasoning_content # ""
     THEN <<[type |-> "thinking", thinking |-> reasoning_content]>> ELSE <<>>)
    \o (IF answer_content # "" THEN <<[type |-> "text", text |-> answer_content]>> ELSE <<>>)
    \o [k \in 1..Len(tool_info) |->
          [type |-> "tool_use", id |-> tool_info[k].id, name |-> tool_info[k].name,
           input |-> JsonLoads(tool_info[k].arguments).v]]

\* A minimax tool round is over and was not interrupted.
MinimaxToolRoundOver ==
    /\ LoopOf(router) = "minimax"
    /\ tool_info # <<>>
    /\ lastItem.gorType = "end"
    /\ pc \in {"call", "done"}
    /\ ~interrupt

\* C18: a minimax tool round with n calls and no interrupt appends exactly
\* two messages, the assistant message with the round's block array and the
\* user message with the n tool_result blocks in call order; no role=tool
\* message is appended.
C18_MinimaxTwoMessages ==
    MinimaxToolRoundOver =>
        /\ Len(messages) = Len(histAtCall) + 2
        /\ messages[Len(histAtCall) + 1] = [role |-> "assistant", content |-> ExpectedBlocks]
        /\ LET results == messages[Len(histAtCall) + 2]
           IN /\ results.role = "user"
              /\ Len(results.content) = Len(tool_info)
              /\ \A k \in 1..Len(tool_info) :
                    /\ results.content[k].type = "tool_result"
                    /\ results.content[k].tool_use_id = tool_info[k].id
        /\ \A i \in AppendedInRound : messages[i].role # "tool"

\* ------------------------------------------- properties of model_chat
IsTerminal(e) == e.gorType \in {"end", "error"}

TerminalPositions == {i \in 1..Len(events) : IsTerminal(events[i])}

\* C19: the events of one model_chat invocation, once the generator is
\* exhausted, hold exactly one End or Error event and it is the last one;
\* none is yielded before; an Error event carries "Error: " and the
\* stringified cause of the exception.
C19_OneTerminalEvent ==
    /\ apc = "closed" => TerminalPositions = {Len(events)}
    /\ apc # "closed" => TerminalPositions = {}
    /\ \A i \in 1..Len(events) :
          events[i].gorType = "error" =>
              \E cause \in TransportCauses : events[i].content = "Error: " \o cause

\* C19's case: the chunk iterator of a stream handler raised after events
\* had been yielded, and the Error event closed the sequence.
C19_Witness ==
    /\ apc = "closed"
    /\ streaming
    /\ Len(events) > 1
    /\ Last(events).gorType = "error"
    /\ chunks > 0

\* The tool events of the invocation, in the order they were yielded.
ToolEvents == SelectSeq(events, LAMBDA e : e.gorType = "tool")

\* The indices whose accumulated record has an id.
IndicesWithId == {i \in DOMAIN tool_calls_dict : tool_calls_dict[i].id # ""}

\* The k-th smallest of a set of numbers.
Kth(S, k) == CHOOSE i \in S : Cardinality({j \in S : j < i}) = k - 1

\* The indices of the fragments, in arrival order.
ArrivalOrder == [n \in 1..Len(arrived) |-> arrived[n].index]

\* C20: openai stream handler, chunk loop over: the ToolCall events are the
\* accumulated records in ascending index order, one per index, whatever
\* the order the fragments arrived in.
C20_ToolCallsByIndex ==
    (AdapterOf(router) = "openai" /\ streaming /\ apc = "closed"
     /\ Last(events).gorType = "end") =>
        /\ Len(ToolEvents) = Cardinality(IndicesWithId)
        /\ \A k \in 1..Len(ToolEvents) :
              ToolEvents[k].content = DumpToolCall(tool_calls_dict[Kth(IndicesWithId, k)])

\* C20's case: fragments arrived for the indices 1, 0, 1, 0 with four
\* distinct ids, and the two events are the record of index 0, then the
\* record of index 1.
C20_Witness ==
    /\ AdapterOf(router) = "openai"
    /\ apc = "closed"
    /\ ArrivalOrder = <<1, 0, 1, 0>>
    /\ Cardinality({arrived[n].id : n \in 1..4}) = 4
    /\ Len(ToolEvents) = 2
    /\ ToolEvents[1].content = DumpToolCall(tool_calls_dict[0])
    /\ ToolEvents[2].content = DumpToolCall(tool_calls_dict[1])

\* The fragments received for one index, in arrival order.
FragmentsOf(i) == SelectSeq(arrived, LAMBDA f : f.index = i)

\* The concatenation of one attribute ("name" or "arguments") of fragments.
RECURSIVE Joined(_, _)
Joined(fragments, attribute) ==
    IF Len(fragments) = 0 THEN ""
    ELSE Head(fragments)[attribute] \o Joined(Tail(fragments), attribute)

\* The first non-empty id among fragments ("" when there is none).
RECURSIVE FirstId(_)
FirstId(fragments) ==
    IF Len(fragments) = 0 THEN ""
    ELSE IF Head(fragments).id # "" THEN Head(fragments).id
    ELSE FirstId(Tail(fragments))

\* C21: openai stream handler: the record accumulated for an index has the
\* arguments text and the name that are the concatenation, in arrival
\* order, of that index's own fragments, and the first non-empty id that
\* arrived for the index.
C21_RecordIsConcatenation ==
    AdapterOf(router) = "openai" =>
        /\ DOMAIN tool_calls_dict = {arrived[n].index : n \in 1..Len(arrived)}
        /\ \A i \in DOMAIN tool_calls_dict :
              /\ tool_calls_dict[i].function.arguments = Joined(FragmentsOf(i), "arguments")
              /\ tool_calls_dict[i].function.name = Joined(FragmentsOf(i), "name")
              /\ tool_calls_dict[i].id = FirstId(FragmentsOf(i))

\* C21's case: two fragments of index 0 arrived with a fragment of index 1
\* between them, the second one carrying another id.
C21_Witness ==
    /\ AdapterOf(router) = "openai"
    /\ ArrivalOrder = <<0, 1, 0>>
    /\ arrived[1].id = "id_a"
    /\ arrived[3].id = "id_b"
    /\ tool_calls_dict[0] = ToolCall("id_a", "add", "{\"a\": 1}")

\* C22: openai stream handler, chunk loop over: every ToolCall event is the
\* record of an index that has an id, no event has an empty id, an index
\* without id has no event, and the events of the other indices keep their
\* ascending order.
C22_ToolCallsHaveId ==
    (AdapterOf(router) = "openai" /\ streaming /\ apc = "closed"
     /\ Last(events).gorType = "end") =>
        /\ \A k \in 1..Len(ToolEvents) :
              /\ ~HasAt(ToolEvents[k].content, 1, "{\"id\": \"\",")
              /\ \E i \in IndicesWithId : ToolEvents[k].content = DumpToolCall(tool_calls_dict[i])
        /\ \A i \in DOMAIN tool_calls_dict \ IndicesWithId :
              \A k \in 1..Len(ToolEvents) :
                  ToolEvents[k].content # DumpToolCall(tool_calls_dict[i])
        /\ \A i, j \in IndicesWithId :
              i < j => \E k, l \in 1..Len(ToolEvents) :
                          /\ k < l
                          /\ ToolEvents[k].content = DumpToolCall(tool_calls_dict[i])
                          /\ ToolEvents[l].content = DumpToolCall(tool_calls_dict[j])

\* C22's case: index 1 never received an id, indices 0 and 2 did; the two
\* events are the records of 0 and 2, in that order.
C22_Witness ==
    /\ AdapterOf(router) = "openai"
    /\ apc = "closed"
    /\ DOMAIN tool_calls_dict = {0, 1, 2}
    /\ tool_calls_dict[1].id = ""
    /\ Len(ToolEvents) = 2
    /\ ToolEvents[1].content = DumpToolCall(tool_calls_dict[0])
    /\ ToolEvents[2].content = DumpToolCall(tool_calls_dict[2])

\* ------------------------------------------------------------------ C23
\* What the parser is described to return for a text: the empty argument set
\* for empty or whitespace-only text, else the strict parse, else the parse
\* of the text with its single quotes replaced, else the failure sentinel.
DescribedParse(s) ==
    IF Len(s) = 0 \/ StripIsEmpty(s) THEN JObj(<<>>)
    ELSE IF JsonLoads(s).st = "ok" THEN JsonLoads(s).v
    ELSE IF JsonLoads(ReplaceQuotes(s)).st = "ok" THEN JsonLoads(ReplaceQuotes(s)).v
    ELSE None

\* C23: the argument parser never raises, for any text the helper hands it:
\* whenever the helper stands before a tool call, the parser applied to the
\* call's arguments text returns (no exception leaves it), and returns the
\* empty argument set, the strict parse, the repaired parse or the failure
\* sentinel, in that order of preference.
C23_ParserNeverRaises ==
    (pc = "tools" /\ idx \in 1..Len(tool_info)) =>
        LET r == _try_parse_tool_arguments(tool_info[idx].arguments)
        IN /\ ~r.raised
           /\ r.v = DescribedParse(tool_info[idx].arguments)

\* ------------------------------------------------------------------ C24
\* A tool call of the stream is complete: its record has an id (openai), or
\* its block was closed (anthropic).
CompleteToolCalls == Len(StreamToolCalls) > 0

\* C24 (as stated): in streaming mode Think, Answer and ToolCall events are
\* all emitted while the chunk that brought them is processed: each such
\* event belongs to a pass of the chunk loop, and a complete tool call has
\* its event while the stream is still open.
C24_AllIncremental ==
    streaming =>
        /\ \A k \in 1..Len(events) :
              events[k].gorType \in {"think", "answer", "tool"} => events[k].at \in 1..chunks
        /\ (apc = "stream" /\ CompleteToolCalls) => Len(ToolEvents) > 0

\* C24 (amended): in streaming mode each Think and Answer event is emitted
\* during the pass of the chunk loop that consumed its fragment, in chunk
\* order; ToolCall events are emitted only after the chunk loop is over,
\* after every Think and Answer event, and while the stream is open no
\* ToolCall event exists however many tool calls are complete.
C24_TextIncrementalToolsAtEnd ==
    streaming =>
        /\ \A k \in 1..Len(events) :
              events[k].gorType \in {"think", "answer"} =>
                  /\ events[k].at \in 1..chunks
                  /\ \A j \in 1..(k - 1) : events[j].at <= events[k].at
        /\ \A k \in 1..Len(events) :
              events[k].gorType = "tool" =>
                  /\ events[k].at = 0
                  /\ apc = "closed"
                  /\ \A j \in (k + 1)..Len(events) : events[j].gorType \in {"tool", "end"}
        /\ apc = "stream" => Len(ToolEvents) = 0
        /\ (apc = "closed" /\ Last(events).gorType = "end") =>
              Len(ToolEvents) = Len(tool_calls)

\* C24 witness: a closed openai stream whose first chunk pass yielded
\* nothing, whose second and third yielded a Think and an Answer event, and
\* whose one tool call was yielded after the loop.
C24_Witness ==
    /\ streaming
    /\ AdapterOf(router) = "openai"
    /\ apc = "closed"
    /\ chunks = 3
    /\ Len(events) = 4
    /\ events[1].gorType = "think" /\ events[1].at = 2
    /\ events[2].gorType = "answer" /\ events[2].at = 3
    /\ events[3].gorType = "tool" /\ events[3].at = 0
    /\ events[4].gorType = "end"

\* ------------------------------------------------------------------ C25
\* A normal handler has turned its response into events.
NormalDone == ~streaming /\ apc = "closed" /\ Last(events).gorType = "end"

\* The blocks of one type of the anthropic response, in response order.
BlocksOf(type) == SelectSeq(response, LAMBDA b : b.type = type)

EventsOf(gorType) == SelectSeq(events, LAMBDA e : e.gorType = gorType)

\* The content items of the response: thinking, text and tool_use blocks
\* (anthropic), or the content and the tool calls of the message (openai).
ContentItems ==
    IF AdapterOf(router) = "anthropic"
    THEN Len(BlocksOf("thinking")) + Len(BlocksOf("text")) + Len(BlocksOf("tool_use"))
    ELSE (IF response.content # "" THEN 1 ELSE 0) + Len(response.tool_calls)

\* C25 (as stated): in non-streaming mode the number of Think, Answer and
\* ToolCall events equals the number of thinking, text and tool_use blocks
\* of the response, and End follows them.
C25_OneEventPerBlock ==
    NormalDone =>
        Len(EventsOf("think")) + Len(EventsOf("answer")) + Len(EventsOf("tool")) = ContentItems

\* C25 (amended): in non-streaming mode the anthropic handler emits at most
\* one Think event, whose content is the concatenation of all thinking
\* blocks, then at most one Answer event, whose content is the concatenation
\* of all text blocks (none when the concatenation is empty), then one
\* ToolCall event per tool_use block in response order, then End; the openai
\* handler emits one Answer event when the message has content, one
\* ToolCall event per tool call, then End.
C25_OneEventPerKind ==
    NormalDone =>
        /\ Len(events) = Len(EventsOf("think")) + Len(EventsOf("answer")) + Len(ToolEvents) + 1
        /\ \A k \in 1..(Len(events) - 1) :
              /\ events[k].gorType = "answer" => events[k + 1].gorType # "think"
              /\ events[k].gorType = "tool" => events[k + 1].gorType \in {"tool", "end"}
        /\ AdapterOf(router) = "anthropic" =>
              /\ EventsOf("think") =
                    IF Joined(BlocksOf("thinking"), "thinking") = "" THEN <<>>
                    ELSE <<MsgReturn(Joined(BlocksOf("thinking"), "thinking"),
                                     "thinking", "think", 0)>>
              /\ EventsOf("answer") =
                    IF Joined(BlocksOf("text"), "text") = "" THEN <<>>
                    ELSE <<MsgReturn(Joined(BlocksOf("text"), "text"), "text", "answer", 0)>>
              /\ Len(ToolEvents) = Len(BlocksOf("tool_use"))
              /\ \A k \in 1..Len(ToolEvents) :
                    /\ tool_calls[k].id = BlocksOf("tool_use")[k].id
                    /\ tool_calls[k].function.name = BlocksOf("tool_use")[k].name
                    /\ ToolEvents[k].content = DumpToolCall(tool_calls[k])
        /\ AdapterOf(router) = "openai" =>
              /\ EventsOf("think") = <<>>
              /\ EventsOf("answer") =
                    IF response.content = "" THEN <<>>
                    ELSE <<MsgReturn(response.content, "content", "answer", 0)>>
              /\ Len(ToolEvents) = Len(response.tool_calls)
              /\ \A k \in 1..Len(ToolEvents) :
                    ToolEvents[k].content = DumpToolCall(response.tool_calls[k])

\* C25 witness: an anthropic response of two text blocks became one Answer
\* event with both texts, followed by End.
C25_Witness ==
    /\ NormalDone
    /\ AdapterOf(router) = "anthropic"
    /\ Len(response) = 2
    /\ Len(BlocksOf("text")) = 2
    /\ Len(events) = 2
    /\ events[1].gorType = "answer"
    /\ events[1].content = "33"

\* ------------------------------------------------------------------ C26
\* A stretch of the log holds an error or an interrupted event.
StoppedByErrorOrInterrupt(seg) ==
    CountOf(seg, "error") + CountOf(seg, "interrupted") > 0

\* C26: the model is called again after a round if and only if the round
\* announced at least one tool call and yielded neither error nor
\* interrupted; a run whose last round had no tool call, no error and no
\* interrupt ends with end; and a run that ended with end without any error
\* or interrupt made one model call more than it had tool rounds.
C26_ReentryIffToolRound ==
    /\ \A q \in Positions(log, "model_chat") :
          log[q].round > 1 =>
              /\ CountOf(SegmentBefore(q), "tool_calls") > 0
              /\ ~StoppedByErrorOrInterrupt(SegmentBefore(q))
    /\ (Stopped /\ rounds > 0) =>
          /\ (CountOf(RoundLog, "tool_calls") = 0 /\ ~StoppedByErrorOrInterrupt(RoundLog))
                => Last(Out).type = "end"
          /\ (Last(Out).type = "end" /\ ~StoppedByErrorOrInterrupt(log))
                => /\ CountOf(RoundLog, "tool_calls") = 0
                   /\ CountOf(log, "model_chat") = CountOf(log, "tool_calls") + 1

\* ------------------------------------------------------------------ C27
\* The class create_model is described to instantiate for a router id.
ClassOfRouter(r) ==
    CASE r = "openai-chat" -> "openai_chat_completetion_model"
      [] r = "anthropic" -> "anthropic_model"
      [] r = "minimax-anthropic" -> "minimax_anthropic_model"
      [] r = "deepseek-openai" -> "deepseek_openai_model"

\* C27: for the four router ids create_model returns an instance of the
\* router's class, whose model_chat and chatToNextLoop are the adapter and
\* the loop the conversation runs for that router; for any other router id
\* it fails with the unsupported-router error, and what it leaves behind has
\* no model object and no client.
C27_CreateModelPairing ==
    model # None =>
        IF router \in Routers
        THEN /\ ~model.raised
             /\ model.class = ClassOfRouter(router)
             /\ model.model_chat = AdapterOf(router)
             /\ model.chatToNextLoop = LoopOf(router)
             /\ model.client = (IF AdapterOf(router) = "openai" THEN "OpenAI" ELSE "Anthropic")
             /\ model.router = router
             /\ model.stream = streaming
        ELSE /\ model.raised
             /\ model.error = "ValueError"
             /\ model.message = "Unsupported router type: " \o router
             /\ DOMAIN model \cap {"client", "class", "model_chat", "chatToNextLoop"} = {}

\* C27's case: create_model was called with a router id that differs from a
\* known one by case only, and raised.
C27_Witness ==
    /\ router = "Anthropic"
    /\ model # None
    /\ model.raised
    /\ model.message = "Unsupported router type: Anthropic"

\* ------------------------------------------------------------------ C29
\* The position of the last descriptor of a name in a tool list.
LastOfName(tool_list, name) ==
    CHOOSE k \in 1..Len(tool_list) :
        /\ tool_list[k].name = name
        /\ \A j \in (k + 1)..Len(tool_list) : tool_list[j].name # name

NamesOf(tool_list) == {tool_list[k].name : k \in 1..Len(tool_list)}

\* C29: after model_tool_init(B), whatever was initialized before, the
\* model object is what model_tool_init(B) makes of a new one: the registry
\* holds exactly B's names, each with its last descriptor in B, the declared
\* tool list has one schema per descriptor of B in B's order, and no tool
\* of an earlier list that is absent from B remains; a model that was never
\* initialized has an empty registry and an empty tool list.
C29_ReinitReplaces ==
    (model # None /\ ~model.raised) =>
        /\ initialized = <<>> =>
              /\ DOMAIN model.tool_dict = {}
              /\ model.tools = <<>>
        /\ initialized # <<>> =>
              /\ model = model_tool_init(create_model(streaming, router), Last(initialized))
              /\ DOMAIN model.tool_dict = NamesOf(Last(initialized))
              /\ \A n \in DOMAIN model.tool_dict :
                    model.tool_dict[n] = Last(initialized)[LastOfName(Last(initialized), n)]
              /\ Len(model.tools) = Len(Last(initialized))
              /\ \A k \in 1..Len(model.tools) :
                    /\ model.tools[k].type = "function"
                    /\ model.tools[k].function.name = Last(initialized)[k].name
                    /\ model.tools[k].function.description = Last(initialized)[k].description

\* C29's case: model_tool_init was called with a list that declares sub and
\* then with a list that declares add only, and sub is gone.
C29_Witness ==
    /\ model # None
    /\ ~model.raised
    /\ Len(initialized) = 2
    /\ "sub" \in NamesOf(initialized[1])
    /\ NamesOf(initialized[2]) = {"add"}
    /\ DOMAIN model.tool_dict = {"add"}
    /\ Len(model.tools) = Len(initialized[2])

\* ------------------------------------------------------------------ C28
OutwardTypes == {"thinking", "answer", "tool_calls", "tool_execution", "tool_result",
                 "error", "interrupted", "end"}

\* The position of the tool_calls event that announces the round position i
\* of the log belongs to (0 when the round has none before i).
AnnouncedAt(i) ==
    IF \E p \in 1..(i - 1) :
          /\ log[p].type = "tool_calls"
          /\ \A j \in (p + 1)..(i - 1) : log[j].type \notin {"tool_calls", "model_chat"}
    THEN CHOOSE p \in 1..(i - 1) :
          /\ log[p].type = "tool_calls"
          /\ \A j \in (p + 1)..(i - 1) : log[j].type \notin {"tool_calls", "model_chat"}
    ELSE 0

\* C28: every outward message of every loop variant has one of the eight
\* types, and every tool_execution and tool_result message carries the name
\* and the id of one call listed in the tool_calls message of its round.
C28_OutwardTypesAndIds ==
    /\ \A i \in 1..Len(Out) : Out[i].type \in OutwardTypes
    /\ \A i \in 1..Len(log) :
          log[i].type \in {"tool_execution", "tool_result"} =>
              /\ AnnouncedAt(i) > 0
              /\ \E k \in 1..Len(log[AnnouncedAt(i)].tool_calls) :
                    /\ log[AnnouncedAt(i)].tool_calls[k].id = log[i].tool_call_id
                    /\ log[AnnouncedAt(i)].tool_calls[k].function.name = log[i].tool_name

\* C28's case: a round announced two calls, executed the first and reported
\* results for both.
C28_Witness ==
    /\ \E p \in Positions(log, "tool_calls") :
          /\ Len(log[p].tool_calls) = 2
          /\ p < Len(log)
          /\ log[p + 1].type = "tool_execution"
          /\ log[p + 1].tool_call_id = log[p].tool_calls[1].id
    /\ CountOf(Out, "tool_result") = 2
    /\ pc = "call"

\* ------------------------------------------------------------------ C30
\* C30: interrupt_check() is polled before each inbound adapter event is
\* processed and before each tool call is handled. A step taken where the
\* poll returns True (the loop waits for an event, or the helper stands
\* before a tool call, with the predicate True) yields interrupted and
\* nothing else: no thinking, answer, error, tool_execution or tool_result
\* event, no executor invocation, nothing accumulated in the round's
\* locals, no argument parsed into tool_args, no result recorded.
C30_PollPrecedesWork ==
    [][(interrupt /\ pc \in {"recv", "tools"}) =>
          /\ log' = Append(log, EvInterrupted)
          /\ locals' = locals
          /\ lastItem' = lastItem
          /\ handled' = handled
          /\ pc = "tools" =>
                /\ messages' = messages
                /\ tool_results' = tool_results
                /\ tool_args' = tool_args
                /\ tool_name' = tool_name]_vars

\* C30's case: the poll before the second tool call of a round returned
\* True after the first call had been executed: the second call has no
\* tool_execution and no tool_result event.
C30_Witness ==
    /\ polledAt = "tool"
    /\ rounds = 1
    /\ Len(tool_info) = 2
    /\ handled = 1
    /\ CountOf(log, "execute_tool") = 1
    /\ CountOf(Out, "tool_result") = 1
    /\ Last(Out).type = "interrupted"

\* ------------------------------------------------------------------ C31
\* The round's event stream ended with End, it accumulated tool calls, and
\* the poll before the tool phase did not return True.
ToolRoundDue ==
    /\ tool_info # <<>>
    /\ lastItem.gorType = "end"
    /\ pc \notin {"recv", "post"}
    /\ polledAt # "pre_tools"

\* C31: a round with at least one tool call and no interrupt before the
\* tool phase yields exactly one tool_calls event; the event lists all calls
\* of the round in order with id, name and raw arguments text, the round's
\* assistant turn message is in the history by then, and the event precedes
\* every tool_execution and tool_result event of the round.
C31_OneToolCallsEvent ==
    ToolRoundDue =>
        /\ CountOf(RoundLog, "tool_calls") = 1
        /\ \A p \in Positions(RoundLog, "tool_calls") :
              /\ Len(RoundLog[p].tool_calls) = Len(tool_info)
              /\ \A k \in 1..Len(tool_info) :
                    /\ RoundLog[p].tool_calls[k].id = tool_info[k].id
                    /\ RoundLog[p].tool_calls[k]["function"].name = tool_info[k].name
                    /\ RoundLog[p].tool_calls[k]["function"].arguments = tool_info[k].arguments
              /\ \A q \in 1..Len(RoundLog) :
                    RoundLog[q].type \in {"tool_execution", "tool_result"} => p < q
        /\ Len(messages) > Len(histAtCall)
        /\ messages[Len(histAtCall) + 1].role = "assistant"

\* ------------------------------------------------------------------ C32
\* The contents of the round's outward events of one type, concatenated in
\* the order they were yielded.
RoundText(type) == Joined(SelectSeq(RoundLog, LAMBDA e : e.type = type), "content")

\* The round's event stream ended with End and the round yielded neither
\* error nor interrupted.
RoundClosed ==
    /\ rounds > 0
    /\ lastItem.gorType = "end"
    /\ pc \in {"tools", "exec", "call", "done"}
    /\ ~StoppedByErrorOrInterrupt(RoundLog)

\* The answer text the closed round left in the history: the content of its
\* assistant turn message (minimax: of that message's text blocks), or of
\* the assistant message appended for a final answer ("" if none was).
PersistedAnswer ==
    IF CountOf(RoundLog, "tool_calls") > 0
    THEN IF LoopOf(router) = "minimax"
         THEN Joined(SelectSeq(messages[Len(histAtCall) + 1].content,
                               LAMBDA b : b.type = "text"), "text")
         ELSE messages[Len(histAtCall) + 1].content
    ELSE IF pc = "done" /\ Len(messages) > Len(histAtCall)
         THEN Last(messages).content
         ELSE ""

\* C32: each Think or Answer event the loop consumes with the predicate
\* false yields one outward thinking or answer event with the same content,
\* in arrival order (the event just consumed is the last one yielded, and
\* the round's outward contents concatenate to the accumulated texts); an
\* openai chunk with both reasoning and content text yields Think then
\* Answer; and the answer text a closed round persisted is the
\* concatenation of the round's Answer contents.
C32_ThinkAnswerRelayed ==
    /\ \A c \in OpenAIChunks :
          (c.choices /\ c.reasoning_content # "" /\ c.content # "") =>
              OpenAIChunkEvents(c, 1) = <<ThinkEvent(c.reasoning_content, "reasoning", 1),
                                          AnswerEvent(c.content, "content", 1)>>
    /\ (rounds > 0 /\ pc = "recv" /\ lastItem.gorType = "think" /\ Len(RoundLog) > 1) =>
          Last(log) = EvThinking(lastItem.content)
    /\ (rounds > 0 /\ pc = "recv" /\ lastItem.gorType = "answer" /\ Len(RoundLog) > 1) =>
          Last(log) = EvAnswer(lastItem.content)
    /\ (rounds > 0 /\ ~StoppedByErrorOrInterrupt(RoundLog) /\ pc \in {"recv", "post"}) =>
          /\ RoundText("thinking") = reasoning_content
          /\ RoundText("answer") = answer_content
    /\ (RoundClosed /\ pc \in {"call", "done"}) => PersistedAnswer = RoundText("answer")

\* ------------------------------------------------------------------ C33
IsStart(c) == c.type = "content_block_start"

IsStop(c) == c.type = "content_block_stop"

IsDelta(c, type) == c.type = "content_block_delta" /\ c.delta.type = type

\* A block is open when chunk k arrives: some start before k has no stop
\* between it and k.
OpenedAt(k) ==
    \E p \in 1..(k - 1) :
        /\ IsStart(arrived[p])
        /\ \A j \in (p + 1)..(k - 1) : ~IsStop(arrived[j])

\* The type of the block open when chunk k arrives.
OpenType(k) ==
    arrived[CHOOSE p \in 1..(k - 1) :
                /\ IsStart(arrived[p])
                /\ \A j \in (p + 1)..(k - 1) : ~IsStart(arrived[j])].content_block.type

\* The stream consumed is well formed: blocks are sequential, every start
\* has its stop, and every delta lies in a block of its kind.
WellFormedStream ==
    /\ \A k \in 1..Len(arrived) :
          /\ IsStart(arrived[k]) => ~OpenedAt(k)
          /\ IsStop(arrived[k]) => OpenedAt(k)
          /\ IsDelta(arrived[k], "text_delta") =>
                OpenedAt(k) /\ OpenType(k) \in {"thinking", "text"}
          /\ IsDelta(arrived[k], "thinking_delta") => OpenedAt(k) /\ OpenType(k) = "thinking"
          /\ IsDelta(arrived[k], "input_json_delta") => OpenedAt(k) /\ OpenType(k) = "tool_use"
    /\ ~OpenedAt(Len(arrived) + 1)

ChunkNumbers == [k \in 1..Len(arrived) |-> k]

\* The Think or Answer event expected for the delta that arrived as chunk k.
ExpectedTextEvent(k) ==
    IF IsDelta(arrived[k], "thinking_delta")
    THEN MsgReturn(arrived[k].delta.thinking, "thinking", "think", k)
    ELSE IF OpenType(k) = "thinking"
         THEN MsgReturn(arrived[k].delta.text, "thinking", "think", k)
         ELSE MsgReturn(arrived[k].delta.text, "text", "answer", k)

\* The tool call expected for the tool_use block that starts at chunk p: the
\* fragments between the start and its stop, concatenated.
ExpectedToolCall(p) ==
    ToolCall(arrived[p].content_block.id, arrived[p].content_block.name,
             Joined(SeqMap(LAMBDA k : arrived[k].delta,
                           SelectSeq(ChunkNumbers,
                                     LAMBDA k : /\ k > p
                                                /\ IsDelta(arrived[k], "input_json_delta")
                                                /\ \A j \in (p + 1)..k : ~IsStop(arrived[j]))),
                    "partial_json"))

\* C33: anthropic stream handler, well-formed stream, closed with End: the
\* events are, in chunk order, one Think per delta inside a thinking block
\* and one Answer per text delta inside a text block, then one ToolCall per
\* tool_use block in block order, whose arguments text is the concatenation
\* of the block's partial-JSON fragments in arrival order, then End.
C33_AnthropicStreamBlocks ==
    (/\ AdapterOf(router) = "anthropic"
     /\ streaming
     /\ apc = "closed"
     /\ Last(events).gorType = "end"
     /\ WellFormedStream) =>
        LET deltas == SelectSeq(ChunkNumbers,
                                LAMBDA k : \/ IsDelta(arrived[k], "text_delta")
                                           \/ IsDelta(arrived[k], "thinking_delta"))
            blocks == SelectSeq(ChunkNumbers,
                                LAMBDA k : /\ IsStart(arrived[k])
                                           /\ arrived[k].content_block.type = "tool_use")
        IN events = [n \in 1..Len(deltas) |-> ExpectedTextEvent(deltas[n])]
                    \o [n \in 1..Len(blocks) |->
                          MsgReturn(DumpToolCall(ExpectedToolCall(blocks[n])),
                                    "tool_calls", "tool", 0)]
                    \o <<MsgReturn("", "end", "end", 0)>>

\* C33's case: one tool_use block with two partial-JSON fragments became one
\* ToolCall event with both fragments in its arguments text.
C33_Witness ==
    /\ AdapterOf(router) = "anthropic"
    /\ streaming
    /\ apc = "closed"
    /\ WellFormedStream
    /\ Len(arrived) = 4
    /\ IsStart(arrived[1])
    /\ IsDelta(arrived[2], "input_json_delta")
    /\ IsDelta(arrived[3], "input_json_delta")
    /\ Len(events) = 2
    /\ events[1].content = DumpToolCall(ToolCall("toolu_a", "add", "{}{}"))

\* ------------------------------------------------------------------ C34
\* The ids of the tool calls recorded in the assistant message at position i
\* of a history that the run appended (deepseek: its tool_calls; minimax:
\* its tool_use blocks).
RecordedCallIds(history, i) ==
    IF history[i].role # "assistant" THEN {}
    ELSE IF LoopOf(router) = "minimax"
         THEN {history[i].content[k].id :
                  k \in {j \in 1..Len(history[i].content) :
                            history[i].content[j].type = "tool_use"}}
         ELSE IF "tool_calls" \in DOMAIN history[i]
              THEN {history[i].tool_calls[k].id : k \in 1..Len(history[i].tool_calls)}
              ELSE {}

\* The history holds a tool result for the call id (deepseek: a role=tool
\* message; minimax: a tool_result block of a user message the run appended).
HasToolResult(history, id) ==
    \E i \in (Len(messages0) + 1)..Len(history) :
        IF LoopOf(router) = "minimax"
        THEN /\ history[i].role = "user"
             /\ \E k \in 1..Len(history[i].content) : history[i].content[k].tool_use_id = id
        ELSE /\ history[i].role = "tool"
             /\ history[i].tool_call_id = id

\* C34: deepseek and minimax: when the model is invoked in a round after
\* the first, every tool call recorded in an assistant message the run
\* appended has its tool result in the history handed to the model.
C34_CallsHaveResults ==
    (LoopOf(router) \in {"deepseek", "minimax"} /\ rounds > 1 /\ pc = "recv") =>
        \A i \in (Len(messages0) + 1)..Len(histAtCall) :
            \A id \in RecordedCallIds(histAtCall, i) : HasToolResult(histAtCall, id)

\* ------------------------------------------------------------------ C35
\* The positions of the assistant messages with a tool_calls list that the
\* run appended to a history.
TurnPositions(history) ==
    {i \in (Len(messages0) + 1)..Len(history) :
        history[i].role = "assistant" /\ "tool_calls" \in DOMAIN history[i]}

\* The last such position before j.
TurnBefore(history, j) ==
    CHOOSE i \in TurnPositions(history) :
        i < j /\ \A h \in TurnPositions(history) : h < j => h <= i

ListedIds(m) == [k \in 1..Len(m.tool_calls) |-> m.tool_calls[k].id]

\* The position in the log of the current round's model call.
RoundStart ==
    CHOOSE p \in Positions(log, "model_chat") : \A q \in Positions(log, "model_chat") : q <= p

\* C35: base loop: when the model is invoked after a tool round, the
\* assistant message appended for that round lists every tool call of the
\* round (same ids, same order), and every role=tool message the run
\* appended carries an id listed by the assistant message before it.
C35_BaseTurnListsCalls ==
    (LoopOf(router) = "base" /\ rounds > 1 /\ pc = "recv") =>
        /\ \A p \in Positions(SegmentBefore(RoundStart), "tool_calls") :
              /\ TurnPositions(histAtCall) # {}
              /\ ListedIds(histAtCall[TurnBefore(histAtCall, Len(histAtCall) + 1)])
                    = [k \in 1..Len(SegmentBefore(RoundStart)[p].tool_calls) |->
                          SegmentBefore(RoundStart)[p].tool_calls[k].id]
        /\ \A j \in (Len(messages0) + 1)..Len(histAtCall) :
              histAtCall[j].role = "tool" =>
                  /\ \E i \in TurnPositions(histAtCall) : i < j
                  /\ \E k \in 1..Len(histAtCall[TurnBefore(histAtCall, j)].tool_calls) :
                        histAtCall[TurnBefore(histAtCall, j)].tool_calls[k].id
                            = histAtCall[j].tool_call_id

\* -------------------------------------------------------------------- C36
\* C36: with the anthropic adapter driven by the base loop, a model
\* invocation after a tool round converts the history the loop appended:
\* the conversion succeeds and the round's generator is not left with the
\* one Error event, whatever arguments text the executed calls carried
\* (empty, or accepted through the single-quote repair).
C36_AppendedHistoryConverts ==
    (router = "anthropic" /\ rounds > 1) =>
        /\ _convert_messages_to_anthropic(histAtCall).st = "ok"
        /\ stream \notin {JsonDecodeErrorText, RecursionErrorText}
        /\ \A p \in Positions(RoundLog, "error") :
              RoundLog[p].message \notin {JsonDecodeErrorText, RecursionErrorText}

\* -------------------------------------------------------------------- C37
\* C37: a message in the history never changes once appended: every step
\* leaves the history it found as a prefix of the history it leaves, so a
\* later history differs from an earlier one only by messages at the end.
C37_AppendedMessagesFrozen == [][IsPrefix(messages, messages')]_vars

\* -------------------------------------------------------------------- C38
\* The answer text an assistant turn message carries (minimax: the text of
\* its text blocks).
TurnAnswer(m) ==
    IF LoopOf(router) = "minimax"
    THEN Joined(SelectSeq(m.content, LAMBDA b : b.type = "text"), "text")
    ELSE m.content

\* The answer text yielded outward in the rounds before the current one.
EarlierAnswers ==
    Joined(SelectSeq(SubSeq(log, 1, RoundStart - 1), LAMBDA e : e.type = "answer"), "content")

\* C38: on a run that ends with end, the answer text yielded outward is in
\* the final history: the answer text of the earlier round, which requested
\* tool calls, is the answer text of the assistant turn message that round
\* appended, and the answer text of the final round is the content of the
\* assistant message appended for it.
C38_AnswerTextPersisted ==
    (pc = "done" /\ Last(log) = EvEnd) =>
        /\ rounds > 1 => TurnAnswer(messages[Len(messages0) + 1]) = EarlierAnswers
        /\ RoundText("answer") =
              IF Len(messages) > Len(histAtCall) THEN Last(messages).content ELSE ""

\* -------------------------------------------------------------------- C39
\* Both attempts of the parser fail on the text.
BothParsesFail(s) ==
    /\ JsonLoads(s).st # "ok"
    /\ JsonLoads(ReplaceQuotes(s)).st # "ok"

\* The log positions of the tool_result events for call id after position p.
ResultsOf(id, p) ==
    {q \in Positions(log, "tool_result") : q > p /\ log[q].tool_call_id = id}

\* C39: a call gets the parse-error tool_result only when both the strict
\* and the repaired parse of its arguments text fail; for a call whose
\* arguments text is valid JSON (null included) the executor is invoked
\* before its tool_result and the result is not the parse error.
C39_ParseFailureOnlyWhenBothFail ==
    \A p \in Positions(log, "tool_calls") :
        \A k \in 1..Len(log[p].tool_calls) :
            LET call == log[p].tool_calls[k]
                text == call["function"].arguments
            IN \A q \in ResultsOf(call.id, p) :
                  /\ log[q].result = ParseErrorText(text) => BothParsesFail(text)
                  /\ JsonLoads(text).st = "ok" =>
                        \E x \in Positions(log, "execute_tool") :
                            p < x /\ x < q /\ log[x].tool_call_id = call.id

====
